---------------------------- MODULE Spec2Model ----------------------------
(***************************************************************************)
(* The pre-flight pipeline of strix (src/strix/interface/main.py):         *)
(* parse_arguments / the interactive menu flow, then the hard gates        *)
(* check_docker_installed, pull_docker_image, validate_environment,        *)
(* warm_up_llm, the repository clones, the scan engine and the exit code.  *)
(*                                                                         *)
(* Python values are modelled as follows: None is the string None (for     *)
(* string-valued places) or the empty sequence (for list-valued places and *)
(* for args.instruction, whose text is a sequence of string pieces because *)
(* TLC cannot concatenate strings); sys.exit(n) sets exit_code to <<n>>,   *)
(* while a running process has exit_code = <<>>.                           *)
(***************************************************************************)
EXTENDS Integers, Sequences, FiniteSets, TLC

VARIABLES
    pc,             \* position of main(): the call it is about to make
    args,           \* the argparse.Namespace main() works on
    flow,           \* state of show_interactive_menu_async
    prompt,         \* which InputPromptApp is active in the flow
    selected_index, \* InteractiveMenuApp.selected_index
    choice,         \* the menu's result (0: none yet)
    targets,        \* local list `targets` / args.target being collected
    credentials,    \* local `credentials` of the credentials preset
    last_event,     \* history: the last key event an app of the flow handled
    flow_module,    \* the file whose show_interactive_menu_async runs
    config_file,    \* ~/.strix/.env as ConfigManager sees it
    inputs,         \* ConfigurationApp._inputs: the text of each field
    last_op,        \* history: the last ConfigManager call, its argument and
                    \* the file it found
    env,            \* os.environ restricted to the keys the program reads
    litellm,        \* litellm.api_key / litellm.api_base
    missing_required_vars,  \* local list of validate_environment
    missing_optional_vars,  \* local list of validate_environment
    tracer,         \* what get_global_tracer() returns after the engine ran
    image_present,  \* what image_exists(client, STRIX_IMAGE) has answered
                    \* (FALSE until pull_docker_image asks)
    pull,           \* layers_info and last_update of pull_docker_image, with
                    \* the history of status.update calls and of frames read
    invocations,    \* two processes inside ConfigManager.update_config, with
                    \* the history of which of them wrote each key last
    calls,          \* history: the external calls made so far, in order
    diagnostic,     \* the last message printed to the console
    exit_code       \* <<>> while running, <<n>> after sys.exit(n)

vars == <<pc, args, flow, prompt, selected_index, choice, targets, credentials,
          last_event, flow_module, config_file, inputs, last_op,
          env, litellm, missing_required_vars, missing_optional_vars, tracer,
          image_present, pull, invocations, calls, diagnostic, exit_code>>

configVars == <<flow_module, config_file, inputs, last_op>>
flowVars == <<flow, prompt, selected_index, choice, targets, credentials,
              last_event, configVars>>
auxVars == <<image_present, pull, invocations>>
gateVars == <<litellm, missing_required_vars, missing_optional_vars, tracer,
              auxVars>>

-----------------------------------------------------------------------------
(* Bounds of the model *)

\* longest list of targets given with -t or collected by the multi prompt
MaxTargets == 2
\* largest number of vulnerability reports the engine leaves in the tracer
MaxReports == 1

-----------------------------------------------------------------------------
(* Python values *)

None == "<None>"

\* bool(v) of a str | None
\* a truth test that takes only the empty string to be false
Truthy_none_included(v) == v # ""

Truthy(v) == v # None /\ v # ""

\* a or b
Or(a, b) == IF Truthy(a) THEN a ELSE b

RECURSIVE SeqsUpTo(_, _)
SeqsUpTo(S, n) ==
    IF n = 0 THEN {<<>>}
    ELSE LET shorter == SeqsUpTo(S, n - 1)
         IN  shorter \cup {Append(s, x) : s \in {t \in shorter : Len(t) = n - 1}, x \in S}


-----------------------------------------------------------------------------
(* Targets: infer_target_type and assign_workspace_subdirs live in         *)
(* strix/interface/utils.py, which is not part of the sources at hand;     *)
(* they are modelled from sections 4.1 and 4.2 of the specification on a   *)
(* small catalogue of raw strings.                                         *)

\* an existing directory, an SSH remote, a URL, a bare host, and garbage
RawTargets ==
    {"./app", "git@github.com:acme/app.git", "https://staging.acme.com",
     "example.com", "bogus"}

\* What the classification looks at, for the strings of the model.
\* the directories that exist (./mirror.git is a bare repository on disk)
ExistingDirs == {"./app", "./app-2", "./mirror.git"}
\* the strings that denote a filesystem path: they start with `.`, `/` or `~`
PathSyntax == ExistingDirs \cup {"./missing"}
\* an SSH remote, or an HTTPS URL on a code-hosting domain
RepositoryForms == {"git@github.com:acme/app.git", "https://github.com/acme/app"}
EndsWithGit == {"./mirror.git", "git@github.com:acme/app.git", "acme.io.git"}
\* the strings with an explicit http:// or https:// scheme
WithScheme == {"https://github.com/acme/app", "https://staging.acme.com"}
\* a dot, no path separator, no scheme
BareHostnames == {"example.com", "acme.io.git"}

\* the classification with the bare hostname tested before the repository
infer_target_type_hostname_first(raw) ==
    IF raw \in PathSyntax \cup ExistingDirs
    THEN IF raw \in ExistingDirs THEN "local_code" ELSE "ValueError"
    ELSE IF raw \in BareHostnames THEN "domain"
    ELSE IF raw \in RepositoryForms \cup EndsWithGit THEN "repository"
    ELSE IF raw \in WithScheme THEN "web_application"
    ELSE "ValueError"

\* the type infer_target_type returns, or "ValueError" when it raises: the
\* first rule that matches decides (path, repository, web application, bare
\* hostname)
infer_target_type(raw) ==
    IF raw \in PathSyntax \cup ExistingDirs
    THEN IF raw \in ExistingDirs THEN "local_code" ELSE "ValueError"
    ELSE IF raw \in RepositoryForms \cup EndsWithGit THEN "repository"
    ELSE IF raw \in WithScheme THEN "web_application"
    ELSE IF raw \in BareHostnames THEN "domain"
    ELSE "ValueError"

\* the slug assign_workspace_subdirs derives from a target
Slug(raw) ==
    CASE raw = "./app"                       -> "app"
      [] raw = "./app-2"                     -> "app-2"
      [] raw = "./mirror.git"                -> "mirror"
      [] raw = "https://github.com/acme/app" -> "app"
      [] raw = "acme.io.git"                 -> "acme.io"
      [] raw = "git@github.com:acme/app.git" -> "app"
      [] raw = "https://staging.acme.com"    -> "staging.acme.com"
      [] raw = "example.com"                 -> "example.com"
      [] OTHER                               -> "target"

\* str(k) for the counts the model reaches
Decimal(k) ==
    CASE k = 1 -> "1" [] k = 2 -> "2" [] k = 3 -> "3" [] k = 4 -> "4" [] k = 5 -> "5"

\* the name of the k-th target with a slug: the slug itself for the first,
\* slug-k afterwards
Suffixed(slug, k) == IF k = 1 THEN slug ELSE slug \o "-" \o Decimal(k)

\* each target gets its slug, with -2, -3, ... appended from the second
\* target of the same slug on, in the order of the list
assign_workspace_subdirs(infos) ==
    [i \in 1..Len(infos) |->
        [infos[i] EXCEPT !.workspace_subdir =
            Suffixed(Slug(infos[i].original),
                     1 + Cardinality({j \in 1..(i - 1) :
                                        Slug(infos[j].original) = Slug(infos[i].original)}))]]

\* one entry of args.targets_info, as both loops over args.target build it
TargetInfo(raw) ==
    [type |-> infer_target_type(raw), original |-> raw,
     workspace_subdir |-> None, cloned_repo_path |-> FALSE]

\* index of the last target infer_target_type rejects, 0 if there is none
LastInvalid(raws) ==
    LET bad == {i \in 1..Len(raws) : infer_target_type(raws[i]) = "ValueError"}
    IN  IF bad = {} THEN 0 ELSE CHOOSE i \in bad : \A j \in bad : i >= j

\* index of the first target infer_target_type rejects, 0 if there is none
FirstInvalid(raws) ==
    LET bad == {i \in 1..Len(raws) : infer_target_type(raws[i]) = "ValueError"}
    IN  IF bad = {} THEN 0 ELSE CHOOSE i \in bad : \A j \in bad : i <= j

\* the loop over args.target skipping a target it has already seen
AppendTargets_deduplicated(raws) ==
    LET keep == {i \in 1..Len(raws) : \A j \in 1..(i - 1) : raws[j] # raws[i]}
    IN  [n \in 1..Cardinality(keep) |->
            TargetInfo(raws[CHOOSE i \in keep : Cardinality({j \in keep : j <= i}) = n])]

\* the loop `for target in args.target`: one entry appended per target
AppendTargets(raws) == [i \in 1..Len(raws) |-> TargetInfo(raws[i])]

\* the loop `for target in args.target` followed by assign_workspace_subdirs
ProcessTargets(raws) == assign_workspace_subdirs(AppendTargets(raws))

-----------------------------------------------------------------------------
(* The process environment *)

EnvKeys ==
    {"STRIX_LLM", "LLM_API_KEY", "PERPLEXITY_API_KEY", "LLM_API_BASE",
     "OPENAI_API_BASE", "LITELLM_BASE_URL", "OLLAMA_API_BASE"}

\* the one non-empty value a variable takes in the model; the four endpoint
\* overrides take different values so that their precedence is observable
EnvValue(k) ==
    CASE k = "STRIX_LLM"          -> "openai/gpt-5"
      [] k = "LLM_API_KEY"        -> "sk-key"
      [] k = "PERPLEXITY_API_KEY" -> "pplx-key"
      [] k = "LLM_API_BASE"       -> "http://llm"
      [] k = "OPENAI_API_BASE"    -> "http://openai"
      [] k = "LITELLM_BASE_URL"   -> "http://litellm"
      [] k = "OLLAMA_API_BASE"    -> "http://ollama"

\* os.getenv(k)
getenv(k) == env[k]

\* every variable is unset, set to the empty string, or set to its value
Environments ==
    {[k \in EnvKeys |-> CASE c[k] = "unset" -> None
                          [] c[k] = "empty" -> ""
                          [] c[k] = "set"   -> EnvValue(k)] :
        c \in [EnvKeys -> {"unset", "empty", "set"}]}

\* The environments of the specification of the whole program: the model
\* identifier, the credential, the first and the last endpoint override vary.
PipelineEnvironments ==
    {e \in Environments :
        /\ e["STRIX_LLM"] # ""
        /\ e["LLM_API_BASE"] # ""
        /\ e["OLLAMA_API_BASE"] # ""
        /\ \A k \in {"PERPLEXITY_API_KEY", "OPENAI_API_BASE", "LITELLM_BASE_URL"} :
              e[k] = None}

-----------------------------------------------------------------------------
(* ConfigManager (config_manager.py).  A dict[str, str] is a function on   *)
(* StoreKeys that is None at the keys the dict does not hold.  The file    *)
(* ~/.strix/.env is the record of whether it exists and of its lines: at   *)
(* each key None (no line), Bare (a line `KEY` without `=`, which          *)
(* dotenv_values reads as None) or the value of the line `KEY='value'`.    *)

REQUIRED_KEYS == {"STRIX_LLM", "LLM_API_KEY"}
OPTIONAL_KEYS ==
    {"PERPLEXITY_API_KEY", "LLM_API_BASE", "OPENAI_API_BASE", "LITELLM_BASE_URL",
     "OLLAMA_API_BASE"}

\* the keys of the model: the recognised ones and one ConfigManager does not know
StoreKeys == REQUIRED_KEYS \cup OPTIONAL_KEYS \cup {"HTTP_PROXY"}

Bare == "<bare>"

\* {}
EmptyDict == [k \in StoreKeys |-> None]

\* the keys a dict holds
Keys(d) == {k \in StoreKeys : d[k] # None}

\* no ~/.strix/.env
NoFile == [exists |-> FALSE, lines |-> EmptyDict]

\* ensure_config_dir touching the file empty whether it exists or not
ensure_config_dir_truncating(file) == [exists |-> TRUE, lines |-> EmptyDict]

\* ConfigManager.ensure_config_dir: the file is created empty when missing
ensure_config_dir(file) == [file EXCEPT !.exists = TRUE]

\* dotenv_values(CONFIG_FILE): None (here Bare) for a line without a value
dotenv_values(file) == file.lines

\* set_key(CONFIG_FILE, key, value): the line of the key is written or replaced
set_key(file, key, value) == [file EXCEPT !.lines[key] = value]

\* ConfigManager.load_config: the dict it returns (the file is ensured first)
load_config(file) ==
    LET config == dotenv_values(ensure_config_dir(file))
    IN  [k \in StoreKeys |-> IF config[k] = Bare THEN None ELSE config[k]]

\* the loop of save_config over the keys of config, in any order: one set_key
\* per key, and set_key touches the line of its key only
RECURSIVE set_keys(_, _, _)
set_keys(file, config, keys) ==
    IF keys = {} THEN file
    ELSE LET key == CHOOSE k \in keys : TRUE
         IN  set_keys(set_key(file, key, config[key]), config, keys \ {key})

\* save_config writing a file that holds the lines of config only
save_config_overwriting(file, config) == [exists |-> TRUE, lines |-> config]

\* save_config keeping the lines of the recognised keys only
save_config_recognised_only(file, config) ==
    [exists |-> TRUE,
     lines  |-> [k \in StoreKeys |->
                   IF k \notin REQUIRED_KEYS \cup OPTIONAL_KEYS THEN None
                   ELSE IF config[k] # None THEN config[k]
                   ELSE file.lines[k]]]

\* ConfigManager.save_config: the file it leaves
save_config(file, config) == set_keys(ensure_config_dir(file), config, Keys(config))

\* dict.update forgetting what the dict held
dict_update_only_updates(config, updates) == updates

\* dict.update
dict_update(config, updates) ==
    [k \in StoreKeys |-> IF updates[k] # None THEN updates[k] ELSE config[k]]

\* ConfigManager.get_value(key) with the default ""
get_value(file, key) ==
    LET config == load_config(file)
    IN  IF config[key] # None THEN config[key] ELSE ""

\* ConfigManager.set_value: the file it leaves
set_value(file, key, value) ==
    save_config(file, [load_config(file) EXCEPT ![key] = value])

\* ConfigManager.update_config: the file it leaves
update_config(file, updates) ==
    save_config(file, dict_update(load_config(file), updates))

\* apply_to_environment without `if value`
apply_to_environment_any_value(file, environ) ==
    LET config == load_config(file)
    IN  [k \in DOMAIN environ |-> IF k \in Keys(config) THEN config[k] ELSE environ[k]]

\* ConfigManager.apply_to_environment: os.environ afterwards
apply_to_environment(file, environ) ==
    LET config == load_config(file)
    IN  [k \in DOMAIN environ |->
            IF k \in Keys(config) /\ Truthy(config[k]) THEN config[k] ELSE environ[k]]

\* an entry of the history of ConfigManager calls
Op(name, partial, before) == [name |-> name, partial |-> partial, before |-> before]

NoOp == Op("", EmptyDict, NoFile)

\* the two processes that may be inside update_config at the same time
Invocations == {1, 2}

\* no process is inside update_config and no key has been written
NoInvocations ==
    [proc   |-> [i \in Invocations |->
                   [pc |-> "idle", updates |-> EmptyDict, loaded |-> EmptyDict,
                    config |-> EmptyDict, pending |-> {}]],
     writer |-> [k \in StoreKeys |-> 0]]

\* the layers of STRIX_IMAGE the pull stream reports on
LayerIds == {"a1b2", "c3d4"}

\* layers_info = {} and last_update = "" (here <<>>), nothing read or shown
NoPull ==
    [layers_info |-> [l \in LayerIds |-> None], last_update |-> <<>>,
     updates |-> <<>>, frames |-> 0, line |-> <<>>, raised |-> FALSE]

\* ConfigurationApp._input_order: the keys of the form, in the order of compose
input_order == <<"STRIX_LLM", "LLM_API_KEY", "PERPLEXITY_API_KEY", "LLM_API_BASE">>

FormKeys == {input_order[i] : i \in 1..Len(input_order)}

\* no ConfigurationApp has been composed yet
NoInputs == [k \in FormKeys |-> ""]

-----------------------------------------------------------------------------
(* Initial state: the process has started, main() is about to run *)

EmptyArgs ==
    [target |-> <<>>, targets_info |-> <<>>, instruction |-> <<>>,
     run_name |-> "", non_interactive |-> FALSE]

NoTracer == [present |-> FALSE, scan_completed |-> FALSE, vulnerability_reports |-> 0]

\* the process at the start of main(), whatever ~/.strix/.env holds
StartedProcess ==
    /\ pc = "parse_arguments"
    /\ args = EmptyArgs
    /\ flow = "Idle"
    /\ prompt = None
    /\ selected_index = 0
    /\ choice = 0
    /\ targets = <<>>
    /\ credentials = None
    /\ last_event = <<>>
    /\ flow_module = "main.py"
    /\ inputs = NoInputs
    /\ last_op = NoOp
    /\ litellm = [api_key |-> None, api_base |-> None]
    /\ missing_required_vars = <<>>
    /\ missing_optional_vars = <<>>
    /\ tracer = NoTracer
    /\ image_present = FALSE
    /\ pull = NoPull
    /\ invocations = NoInvocations
    /\ calls = <<>>
    /\ diagnostic = <<>>
    /\ exit_code = <<>>

Started == StartedProcess /\ config_file = NoFile

Init == Started /\ env \in PipelineEnvironments

\* sys.exit(n) after printing msg
Exit(n, msg) ==
    /\ exit_code' = <<n>>
    /\ diagnostic' = msg
    /\ pc' = "exited"


-----------------------------------------------------------------------------
(* parse_arguments and the start of main() *)

\* the values the model gives to --instruction and --run-name
CliInstructions == {<<>>, <<"Focus on IDOR and XSS">>}
CliRunNames == {"", "custom-run"}

\* What parse_arguments does with an argv holding the -t occurrences raws:
\* no target: main() goes on to show_interactive_menu(); a target that
\* infer_target_type rejects: parser.error, which prints the message and
\* exits with status 2; otherwise targets_info is built and main() goes on
\* to check_docker_installed.
parse_arguments(raws, instruction, run_name, non_interactive) ==
    LET parsed == [target |-> raws, targets_info |-> <<>>,
                   instruction |-> instruction, run_name |-> run_name,
                   non_interactive |-> non_interactive]
        bad    == FirstInvalid(raws)
    IN  IF raws = <<>>
        THEN /\ args' = parsed
             /\ pc' = "show_interactive_menu"
             /\ flow' = "MenuDisplay"
             /\ UNCHANGED <<exit_code, diagnostic>>
        ELSE IF bad # 0
        THEN /\ args' = [parsed EXCEPT
                           !.targets_info = AppendTargets(SubSeq(raws, 1, bad - 1))]
             /\ Exit(2, <<"Invalid target", raws[bad]>>)
             /\ UNCHANGED flow
        ELSE /\ args' = [parsed EXCEPT !.targets_info = ProcessTargets(raws)]
             /\ pc' = "check_docker_installed"
             /\ UNCHANGED <<flow, exit_code, diagnostic>>

ParseArguments ==
    /\ pc = "parse_arguments"
    /\ \E raws \in SeqsUpTo(RawTargets, MaxTargets),
          instruction \in CliInstructions,
          run_name \in CliRunNames,
          non_interactive \in BOOLEAN :
            parse_arguments(raws, instruction, run_name, non_interactive)
    /\ UNCHANGED <<prompt, selected_index, choice, targets, credentials, env,
                   calls, last_event, configVars>>
    /\ UNCHANGED gateVars

-----------------------------------------------------------------------------
(* show_interactive_menu_async of main.py: the menu *)

\* len(menu_options) in main.py
NumMenuOptions == 7

\* len(_get_menu_options()) in menu.py, and the number of its last entry,
\* "Configuration"
NumMenuOptionsWithConfiguration == 8

\* len(self.menu_options) in the file whose flow runs
len_menu_options ==
    IF flow_module = "menu.py" THEN NumMenuOptionsWithConfiguration
    ELSE NumMenuOptions

\* `if choice in [4, 5]` without the entry "Test multiple environments"
MultiTargetChoices_without_environments == {4}

\* the presets whose targets are collected by the multi-target loop
MultiTargetChoices == {4, 5}

\* InteractiveMenuApp.action_move_up
action_move_up(index) == IF index > 0 THEN index - 1 ELSE index

\* action_move_down going from the last entry back to the first
action_move_down_wrapping(index) == (index + 1) % len_menu_options

\* InteractiveMenuApp.action_move_down
action_move_down(index) == IF index < len_menu_options - 1 THEN index + 1 ELSE index

\* InteractiveMenuApp.action_select: the result is the 1-based index
action_select(index) == index + 1

InMenu == pc = "show_interactive_menu" /\ flow = "MenuDisplay"

MenuMoveUp ==
    /\ InMenu
    /\ selected_index' = action_move_up(selected_index)
    /\ last_event' = <<"menu", "up">>
    /\ UNCHANGED <<pc, args, flow, prompt, choice, targets, credentials, env,
                   calls, diagnostic, exit_code>>
    /\ UNCHANGED <<gateVars, configVars>>

MenuMoveDown ==
    /\ InMenu
    /\ selected_index' = action_move_down(selected_index)
    /\ last_event' = <<"menu", "down">>
    /\ UNCHANGED <<pc, args, flow, prompt, choice, targets, credentials, env,
                   calls, diagnostic, exit_code>>
    /\ UNCHANGED <<gateVars, configVars>>

\* ConfigurationApp.compose: each field starts with the value
\* get_all_config() holds at its key, "" without one
compose(file) ==
    [k \in FormKeys |-> IF load_config(file)[k] # None THEN load_config(file)[k]
                        ELSE ""]

\* menu.py: `if choice == 8`, show_configuration_async() starts a
\* ConfigurationApp, whose compose reads the stored configuration
show_configuration ==
    /\ flow' = "SettingsScreen"
    /\ inputs' = compose(config_file)
    /\ config_file' = ensure_config_dir(config_file)
    /\ last_op' = Op("get_all_config", EmptyDict, config_file)
    /\ UNCHANGED <<args, prompt, targets, flow_module>>

\* the flow after a preset was chosen, with the parsed arguments kept and
\* only their targets reset
open_target_prompt_keeping_flags(chosen) ==
    /\ args' = [args EXCEPT !.target = <<>>, !.targets_info = <<>>]
    /\ targets' = <<>>
    /\ IF chosen \in MultiTargetChoices
       THEN flow' = "AwaitingMultiInput" /\ prompt' = "target"
       ELSE flow' = "AwaitingSingleInput" /\ prompt' = "target"
    /\ UNCHANGED configVars

\* the flow after a preset was chosen: a fresh Namespace replaces the parsed
\* arguments and the first prompt opens
open_target_prompt(chosen) ==
    /\ args' = EmptyArgs
    /\ targets' = <<>>
    /\ IF chosen \in MultiTargetChoices
       THEN flow' = "AwaitingMultiInput" /\ prompt' = "target"
       ELSE flow' = "AwaitingSingleInput" /\ prompt' = "target"
    /\ UNCHANGED configVars

\* Enter in the menu: the app exits with the choice
MenuSelect ==
    /\ InMenu
    /\ choice' = action_select(selected_index)
    /\ last_event' = <<"menu", "enter">>
    /\ IF flow_module = "menu.py" /\ choice' = NumMenuOptionsWithConfiguration
       THEN show_configuration
       ELSE open_target_prompt(choice')
    /\ UNCHANGED <<pc, selected_index, credentials, env, calls, diagnostic,
                   exit_code>>
    /\ UNCHANGED gateVars

\* q or escape in the menu, choice is None: main.py prints "Cancelled." and
\* calls sys.exit(0); menu.py returns None to its caller from inside the loop
MenuQuit ==
    /\ InMenu
    /\ flow' = "Cancelled"
    /\ last_event' = <<"menu", "escape">>
    /\ IF flow_module = "menu.py"
       THEN pc' = "returned" /\ UNCHANGED <<exit_code, diagnostic>>
       ELSE Exit(0, <<"Cancelled.">>)
    /\ UNCHANGED <<args, prompt, selected_index, choice, targets, credentials,
                   env, calls>>
    /\ UNCHANGED <<gateVars, configVars>>

-----------------------------------------------------------------------------
(* show_interactive_menu_async of main.py: the input prompts *)

\* what the user may type into a target prompt
TypedTargets == RawTargets \cup {"", "   ", " example.com "}
\* what the user may type into an instruction or credentials prompt
TypedInstructions == {"", "   ", "Prioritize authentication testing"}
TypedCredentials == {"", "admin/password123"}

\* what the model types into the field of a key of the settings form, spaces
\* around it
PaddedValue(k) ==
    CASE k = "STRIX_LLM"          -> " anthropic/claude "
      [] k = "LLM_API_KEY"        -> " sk-new "
      [] k = "PERPLEXITY_API_KEY" -> " pplx-new "
      [] k = "LLM_API_BASE"       -> " http://new "

\* str.strip() on the strings the model types
strip(v) ==
    CASE v = "   "                -> ""
      [] v = " example.com "      -> "example.com"
      [] v = " anthropic/claude " -> "anthropic/claude"
      [] v = " sk-new "           -> "sk-new"
      [] v = " pplx-new "         -> "pplx-new"
      [] v = " http://new "       -> "http://new"
      [] OTHER                    -> v

\* InputPromptApp.allow_empty of the prompt that is open
allow_empty == flow = "AwaitingMultiInput" \/ prompt # "target"

\* on_input_submitted without the test of allow_empty
on_input_submitted_any_value(value, allowEmpty) == TRUE

\* InputPromptApp.on_input_submitted: TRUE iff the app exits with the value
on_input_submitted(value, allowEmpty) == value # "" \/ allowEmpty

\* the instruction of the credentials preset with the full stop added to the
\* additional instructions as well when there are no credentials
credentials_instruction_always_terminated(creds, instruction_text) ==
    IF Truthy(creds)
    THEN IF Truthy(instruction_text)
         THEN <<"Test with credentials: ", creds, ". ", instruction_text, ".">>
         ELSE <<"Test with credentials: ", creds, ".">>
    ELSE IF Truthy(instruction_text) THEN <<instruction_text, ".">> ELSE <<>>

\* the instruction the credentials preset builds from its two answers
credentials_instruction(creds, instruction_text) ==
    IF Truthy(creds)
    THEN IF Truthy(instruction_text)
         THEN <<"Test with credentials: ", creds, ". ", instruction_text, ".">>
         ELSE <<"Test with credentials: ", creds, ".">>
    ELSE IF Truthy(instruction_text) THEN <<instruction_text>> ELSE <<>>

\* the multi-target loop with a blank line always ending the collection
multi_target_step_blank_ends(result, collected) ==
    IF result = None
    THEN IF collected # <<>> THEN "break" ELSE "exit"
    ELSE IF result = "" THEN "break" ELSE "append"

\* the multi-target loop with a blank line never ending the collection
multi_target_step_blank_ignored(result, collected) ==
    IF result = None
    THEN IF collected # <<>> THEN "break" ELSE "exit"
    ELSE IF result = "" THEN "continue" ELSE "append"

\* the multi-target loop with escape always cancelling the run
multi_target_step_escape_cancels(result, collected) ==
    IF result = None THEN "exit"
    ELSE IF result = ""
    THEN IF collected # <<>> THEN "break" ELSE "continue"
    ELSE "append"

\* the multi-target loop with escape always ending the collection
multi_target_step_escape_breaks(result, collected) ==
    IF result = None THEN "break"
    ELSE IF result = ""
    THEN IF collected # <<>> THEN "break" ELSE "continue"
    ELSE "append"

\* One round of the multi-target loop, given the prompt's result and the
\* targets collected so far: "break" ends the collection, "exit" cancels the
\* run, "continue" asks again, "append" collects the result and asks again
multi_target_step(result, collected) ==
    IF result = None
    THEN IF collected # <<>> THEN "break" ELSE "exit"
    ELSE IF result = ""
    THEN IF collected # <<>> THEN "break" ELSE "continue"
    ELSE "append"

\* "Cancelled." and sys.exit(0) inside the flow
FlowCancelled ==
    /\ flow' = "Cancelled"
    /\ Exit(0, <<"Cancelled.">>)
    /\ UNCHANGED <<args, prompt, targets, credentials>>

\* the flow goes on to `# Process targets` with args.target = raws
ToResolving(raws, instruction) ==
    /\ flow' = "Resolving"
    /\ prompt' = None
    /\ args' = [args EXCEPT !.target = raws, !.instruction = instruction]
    /\ UNCHANGED <<pc, exit_code, diagnostic>>

\* The code of show_interactive_menu_async that runs when the open prompt
\* returns result (None after escape, otherwise the stripped submission), up
\* to the next prompt.
prompt_returned(result) ==
    IF flow = "AwaitingMultiInput"
    THEN LET step == multi_target_step(result, targets)
         IN  IF step = "break"
             THEN ToResolving(targets, args.instruction)
                  /\ UNCHANGED <<targets, credentials>>
             ELSE IF step = "exit"
             THEN FlowCancelled
             ELSE IF step = "continue"
             THEN UNCHANGED <<pc, args, flow, prompt, targets, credentials,
                              exit_code, diagnostic>>
             ELSE /\ targets' = Append(targets, result)
                  /\ UNCHANGED <<pc, args, flow, prompt, credentials, exit_code,
                                 diagnostic>>
    ELSE IF prompt = "target"
    THEN IF ~Truthy(result)
         THEN FlowCancelled
         ELSE IF choice = 6 /\ args.instruction = <<>>
         THEN /\ prompt' = "instruction"
              /\ args' = [args EXCEPT !.target = <<result>>]
              /\ UNCHANGED <<pc, flow, targets, credentials, exit_code, diagnostic>>
         ELSE IF choice = 7 /\ args.instruction = <<>>
         THEN /\ prompt' = "credentials"
              /\ args' = [args EXCEPT !.target = <<result>>]
              /\ UNCHANGED <<pc, flow, targets, credentials, exit_code, diagnostic>>
         ELSE ToResolving(<<result>>, args.instruction)
              /\ UNCHANGED <<targets, credentials>>
    ELSE IF prompt = "instruction"
    THEN ToResolving(args.target,
                     IF Truthy(result) THEN <<result>> ELSE args.instruction)
         /\ UNCHANGED <<targets, credentials>>
    ELSE IF prompt = "credentials"
    THEN /\ credentials' = result
         /\ prompt' = "additional instructions"
         /\ UNCHANGED <<pc, args, flow, targets, exit_code, diagnostic>>
    ELSE ToResolving(args.target,
                     IF Truthy(credentials) \/ Truthy(result)
                     THEN credentials_instruction(credentials, result)
                     ELSE args.instruction)
         /\ UNCHANGED <<targets, credentials>>

InPrompt ==
    /\ pc = "show_interactive_menu"
    /\ flow \in {"AwaitingSingleInput", "AwaitingMultiInput"}

\* what may be typed into the prompt that is open
Typed ==
    CASE prompt = "target"      -> TypedTargets
      [] prompt = "credentials" -> TypedCredentials
      [] OTHER                  -> TypedInstructions

\* Enter in a prompt: an empty value is refused unless the field allows it
InputSubmitted ==
    /\ InPrompt
    /\ \E typed \in Typed :
          LET value == strip(typed)
          IN  \* the multi-target loop has no bound; the model stops typing
              \* targets after MaxTargets of them
              /\ (flow = "AwaitingMultiInput" /\ value # "") => Len(targets) < MaxTargets
              /\ IF on_input_submitted(value, allow_empty)
                 THEN prompt_returned(value)
                 ELSE UNCHANGED <<pc, args, flow, prompt, targets, credentials,
                                  exit_code, diagnostic>>
              /\ last_event' = <<"prompt", "enter", typed>>
    /\ UNCHANGED <<selected_index, choice, env, calls>>
    /\ UNCHANGED <<gateVars, configVars>>

\* escape in a prompt: InputPromptApp.action_quit, the result is None
InputQuit ==
    /\ InPrompt
    /\ prompt_returned(None)
    /\ last_event' = <<"prompt", "escape">>
    /\ UNCHANGED <<selected_index, choice, env, calls>>
    /\ UNCHANGED <<gateVars, configVars>>

\* `# Process targets`: the first target infer_target_type rejects ends the
\* process with exit code 1; otherwise the flow returns args to main()
ResolveTargets ==
    /\ pc = "show_interactive_menu"
    /\ flow = "Resolving"
    /\ LET bad == FirstInvalid(args.target)
       IN  IF bad # 0
           THEN /\ args' = [args EXCEPT
                     !.targets_info = AppendTargets(SubSeq(args.target, 1, bad - 1))]
                /\ flow' = "Failed"
                /\ Exit(1, <<"Invalid target", args.target[bad]>>)
           ELSE /\ args' = [args EXCEPT !.targets_info = ProcessTargets(args.target)]
                /\ flow' = "Done"
                /\ pc' = IF flow_module = "menu.py" THEN "returned"
                         ELSE "check_docker_installed"
                /\ UNCHANGED <<exit_code, diagnostic>>
    /\ UNCHANGED <<prompt, selected_index, choice, targets, credentials, env,
                   calls, last_event>>
    /\ UNCHANGED <<gateVars, configVars>>

-----------------------------------------------------------------------------
(* ConfigurationApp of menu.py: the settings screen.  The focus is left    *)
(* out: the user may type into any field of the form.                      *)

InSettings == pc = "show_interactive_menu" /\ flow = "SettingsScreen"

\* what the user may leave in the field of a key
FieldTexts(k) == {"", "   ", PaddedValue(k)}

\* the user edits one field
ConfigInput ==
    /\ InSettings
    /\ \E k \in FormKeys :
          \E text \in FieldTexts(k) : inputs' = [inputs EXCEPT ![k] = text]
    /\ last_event' = <<"config", "input">>
    /\ UNCHANGED <<pc, args, flow, prompt, selected_index, choice, targets,
                   credentials, flow_module, config_file, last_op, env, calls,
                   diagnostic, exit_code>>
    /\ UNCHANGED gateVars

\* action_save putting the text of every field into updates, blank or not
config_updates_keeping_blank(file, fields) ==
    [k \in StoreKeys |-> IF k \in FormKeys THEN strip(fields[k]) ELSE None]

\* the dict `updates` of action_save: the stripped text of each field that is
\* not blank, and the stored value of a required key whose field is blank
config_updates(file, fields) ==
    [k \in StoreKeys |->
        IF k \notin FormKeys THEN None
        ELSE IF strip(fields[k]) # "" THEN strip(fields[k])
        ELSE IF k \in {"STRIX_LLM", "LLM_API_KEY"} /\ Truthy(get_value(file, k))
        THEN get_value(file, k)
        ELSE None]

\* apply_to_environment called before update_config
apply_then_update(file, environ, updates) ==
    [file    |-> update_config(file, updates),
     environ |-> apply_to_environment(file, environ)]

\* update_config(updates) with no apply_to_environment() after it
update_without_apply(file, environ, updates) ==
    [file |-> update_config(file, updates), environ |-> environ]

\* update_config(updates) followed by apply_to_environment(): the file and
\* the environment they leave
update_then_apply(file, environ, updates) ==
    LET written == update_config(file, updates)
    IN  [file |-> written, environ |-> apply_to_environment(written, environ)]

\* litellm after `# Re-apply litellm settings immediately after saving`
save_litellm(updates) ==
    [api_key  |-> IF Truthy(updates["LLM_API_KEY"]) THEN updates["LLM_API_KEY"]
                  ELSE IF updates["LLM_API_KEY"] # None THEN None
                  ELSE litellm.api_key,
     api_base |-> IF Truthy(updates["LLM_API_BASE"]) THEN updates["LLM_API_BASE"]
                  ELSE IF Truthy(updates["OPENAI_API_BASE"]) THEN updates["OPENAI_API_BASE"]
                  ELSE IF Truthy(updates["LITELLM_BASE_URL"]) THEN updates["LITELLM_BASE_URL"]
                  ELSE IF Truthy(updates["OLLAMA_API_BASE"]) THEN updates["OLLAMA_API_BASE"]
                  ELSE IF updates["LLM_API_BASE"] # None \/ updates["OPENAI_API_BASE"] # None
                  THEN None
                  ELSE litellm.api_base]

\* the flow returning None to its caller when the ConfigurationApp exits
return_after_configuration ==
    /\ flow' = "Cancelled"
    /\ pc' = "returned"
    /\ inputs' = NoInputs
    /\ UNCHANGED <<args, prompt, selected_index, choice, targets, credentials,
                   exit_code>>

\* the flow after show_configuration_async() has returned: the
\* ConfigurationApp is gone and `continue` shows a new InteractiveMenuApp
back_to_menu ==
    /\ flow' = "MenuDisplay"
    /\ selected_index' = 0
    /\ inputs' = NoInputs
    /\ UNCHANGED <<pc, args, prompt, choice, targets, credentials, exit_code>>

\* ctrl+s: ConfigurationApp.action_save
ConfigSave ==
    /\ InSettings
    /\ LET updates == config_updates(config_file, inputs)
           saved   == update_then_apply(config_file, env, updates)
       IN  /\ config_file' = saved.file
           /\ env' = saved.environ
           /\ litellm' = save_litellm(updates)
           /\ last_op' = Op("action_save", updates, config_file)
    /\ diagnostic' = <<"Configuration saved successfully!">>
    /\ last_event' = <<"config", "ctrl+s">>
    /\ back_to_menu
    /\ UNCHANGED <<flow_module, calls, missing_required_vars,
                   missing_optional_vars, tracer, auxVars>>

\* escape: ConfigurationApp.action_quit
ConfigQuit ==
    /\ InSettings
    /\ last_event' = <<"config", "escape">>
    /\ back_to_menu
    /\ UNCHANGED <<env, calls, diagnostic, flow_module, config_file, last_op>>
    /\ UNCHANGED gateVars

-----------------------------------------------------------------------------
(* main(): the order of the gates *)

\* main() with the credential validation moved in front of the image
\* provisioning
AfterStage_validate_first(stage) ==
    CASE stage = "check_docker_installed" -> "validate_environment"
      [] stage = "validate_environment"   -> "pull_docker_image"
      [] stage = "pull_docker_image"      -> "warm_up_llm"
      [] stage = "warm_up_llm"            -> "clone_repository"
      [] stage = "clone_repository"       -> "run_engine"
      [] stage = "run_engine"             -> "display_completion_message"

\* the statement of main() that follows the successful return of a stage
AfterStage(stage) ==
    CASE stage = "check_docker_installed" -> "pull_docker_image"
      [] stage = "pull_docker_image"      -> "validate_environment"
      [] stage = "validate_environment"   -> "warm_up_llm"
      [] stage = "warm_up_llm"            -> "clone_repository"
      [] stage = "clone_repository"       -> "run_engine"
      [] stage = "run_engine"             -> "display_completion_message"

\* an entry of the history of calls
Call(name, arg) == <<name, arg>>

-----------------------------------------------------------------------------
(* check_docker_installed and pull_docker_image *)

\* found: whether shutil.which("docker") finds the CLI
check_docker_installed(found) ==
    /\ calls' = Append(calls, Call("shutil.which", "docker"))
    /\ IF found
       THEN pc' = AfterStage("check_docker_installed") /\ UNCHANGED <<exit_code, diagnostic>>
       ELSE Exit(1, <<"DOCKER NOT INSTALLED">>)

CheckDockerInstalled ==
    /\ pc = "check_docker_installed"
    /\ \E found \in BOOLEAN : check_docker_installed(found)
    /\ UNCHANGED <<args, env>>
    /\ UNCHANGED flowVars
    /\ UNCHANGED gateVars

\* check_docker_connection of utils.py: the engine cannot be reached
docker_unavailable ==
    /\ calls' = Append(calls, Call("check_docker_connection", ""))
    /\ Exit(1, <<"DOCKER NOT AVAILABLE">>)

\* connected: check_docker_connection returns a client; present: image_exists;
\* pulled: the pull stream ends without a DockerException
pull_docker_image(connected, present, pulled) ==
    IF ~connected
    THEN docker_unavailable
    ELSE IF present
    THEN /\ calls' = calls \o <<Call("check_docker_connection", ""),
                                Call("image_exists", "STRIX_IMAGE")>>
         /\ pc' = AfterStage("pull_docker_image")
         /\ UNCHANGED <<exit_code, diagnostic>>
    ELSE /\ calls' = calls \o <<Call("check_docker_connection", ""),
                                Call("image_exists", "STRIX_IMAGE"),
                                Call("client.api.pull", "STRIX_IMAGE")>>
         /\ IF pulled
            THEN pc' = AfterStage("pull_docker_image") /\ UNCHANGED <<exit_code, diagnostic>>
            ELSE Exit(1, <<"FAILED TO PULL IMAGE", "DockerException">>)

PullDockerImage ==
    /\ pc = "pull_docker_image"
    /\ \E connected \in BOOLEAN, present \in BOOLEAN, pulled \in BOOLEAN :
          pull_docker_image(connected, present, pulled)
    /\ UNCHANGED <<args, env>>
    /\ UNCHANGED flowVars
    /\ UNCHANGED gateVars

-----------------------------------------------------------------------------
(* validate_environment *)

EndpointOverrides ==
    <<"LLM_API_BASE", "OPENAI_API_BASE", "LITELLM_BASE_URL", "OLLAMA_API_BASE">>

\* has_base_url that looks at LLM_API_BASE alone
has_base_url_first_only == Truthy(getenv("LLM_API_BASE"))

has_base_url == \E i \in 1..Len(EndpointOverrides) : Truthy(getenv(EndpointOverrides[i]))

\* s if cond else the empty list
When(cond, s) == IF cond THEN s ELSE <<>>

\* validate_environment without the check of STRIX_LLM
MissingRequired_without_model ==
    When(~Truthy(getenv("LLM_API_KEY")) /\ ~has_base_url, <<"LLM_API_KEY">>)

MissingRequired ==
    When(~Truthy(getenv("STRIX_LLM")), <<"STRIX_LLM">>)
    \o When(~Truthy(getenv("LLM_API_KEY")) /\ ~has_base_url, <<"LLM_API_KEY">>)

MissingOptional ==
    When(~Truthy(getenv("LLM_API_KEY")) /\ has_base_url, <<"LLM_API_KEY">>)
    \o When(~has_base_url, <<"LLM_API_BASE">>)
    \o When(~Truthy(getenv("PERPLEXITY_API_KEY")), <<"PERPLEXITY_API_KEY">>)

\* validate_environment without its sys.exit(1)
validation_never_aborts(required, optional) == FALSE

\* validate_environment that also stops on missing optional variables
validation_aborts_on_optional(required, optional) ==
    required # <<>> \/ optional # <<>>

\* whether validate_environment ends the process
validation_aborts(required, optional) == required # <<>>

ValidateEnvironment ==
    /\ pc = "validate_environment"
    /\ missing_required_vars' = MissingRequired
    /\ missing_optional_vars' = MissingOptional
    /\ calls' = Append(calls, Call("validate_environment", ""))
    /\ IF validation_aborts(MissingRequired, MissingOptional)
       THEN Exit(1, <<"MISSING REQUIRED ENVIRONMENT VARIABLES">> \o MissingRequired)
       ELSE pc' = AfterStage("validate_environment") /\ UNCHANGED <<exit_code, diagnostic>>
    /\ UNCHANGED <<args, env, litellm, tracer, auxVars>>
    /\ UNCHANGED flowVars

-----------------------------------------------------------------------------
(* warm_up_llm *)

\* the `or` chain of warm_up_llm in the opposite order
warm_up_api_base_reversed ==
    Or(getenv("OLLAMA_API_BASE"),
       Or(getenv("LITELLM_BASE_URL"),
          Or(getenv("OPENAI_API_BASE"), getenv("LLM_API_BASE"))))

\* api_base: the first truthy override in the order of the `or` chain
warm_up_api_base ==
    Or(getenv("LLM_API_BASE"),
       Or(getenv("OPENAI_API_BASE"),
          Or(getenv("LITELLM_BASE_URL"), getenv("OLLAMA_API_BASE"))))

\* litellm after the two conditional assignments of warm_up_llm
warm_up_litellm ==
    [api_key  |-> IF Truthy(getenv("LLM_API_KEY")) THEN getenv("LLM_API_KEY")
                  ELSE litellm.api_key,
     api_base |-> IF Truthy(warm_up_api_base) THEN warm_up_api_base
                  ELSE litellm.api_base]

\* what the one completion request may do
WarmUpOutcomes == {"ok", "litellm.completion raises", "validate_llm_response raises"}

\* main() between warm_up_llm and the clone loop: args.run_name is generated
\* when none was given
with_run_name(a) ==
    IF a.run_name = "" THEN [a EXCEPT !.run_name = "generated-run"] ELSE a

\* the panel of the except clause without its "Error: {e}" line
warm_up_error_panel_without_error(e) == <<"LLM CONNECTION FAILED">>

\* the panel the except clause prints: the headline and f"Error: {e}"
warm_up_error_panel(e) == <<"LLM CONNECTION FAILED", e>>

\* the exceptions the try block may raise
WarmUpErrors == WarmUpOutcomes \ {"ok"}

warm_up_llm(outcome) ==
    /\ litellm' = warm_up_litellm
    /\ calls' = Append(calls, Call("litellm.completion", litellm'.api_base))
    /\ IF outcome = "ok"
       THEN /\ pc' = AfterStage("warm_up_llm")
            /\ args' = with_run_name(args)
            /\ UNCHANGED <<exit_code, diagnostic>>
       ELSE /\ Exit(1, warm_up_error_panel(outcome))
            /\ UNCHANGED args

WarmUpLlm ==
    /\ pc = "warm_up_llm"
    /\ \E outcome \in WarmUpOutcomes : warm_up_llm(outcome)
    /\ UNCHANGED <<env, missing_required_vars, missing_optional_vars, tracer,
                   auxVars>>
    /\ UNCHANGED flowVars

-----------------------------------------------------------------------------
(* main(): the clone loop, the scan engine and the exit code *)

\* whether the loop of main() clones this entry of args.targets_info
needs_clone(target_info) == target_info.type = "repository"

\* the indices of the entries the loop clones, in order
RECURSIVE CloneIndices(_, _)
CloneIndices(infos, i) ==
    IF i > Len(infos) THEN <<>>
    ELSE When(needs_clone(infos[i]), <<i>>) \o CloneIndices(infos, i + 1)

\* The loop over args.targets_info. failAt = 0: every clone_repository call
\* returns; failAt = k: the k-th call fails, which ends the process with
\* exit code 1 (clone_repository is part of utils.py).
clone_repositories(failAt) ==
    LET todo  == CloneIndices(args.targets_info, 1)
        tried == IF failAt = 0 THEN todo ELSE SubSeq(todo, 1, failAt)
        done  == IF failAt = 0 THEN todo ELSE SubSeq(todo, 1, failAt - 1)
        doneSet == {done[k] : k \in 1..Len(done)}
    IN  /\ failAt <= Len(todo)
        /\ calls' = calls \o [k \in 1..Len(tried) |->
                        Call("clone_repository", args.targets_info[tried[k]].original)]
        /\ args' = [args EXCEPT !.targets_info =
                      [i \in 1..Len(args.targets_info) |->
                          IF i \in doneSet
                          THEN [args.targets_info[i] EXCEPT !.cloned_repo_path = TRUE]
                          ELSE args.targets_info[i]]]
        /\ IF failAt = 0
           THEN pc' = AfterStage("clone_repository") /\ UNCHANGED <<exit_code, diagnostic>>
           ELSE Exit(1, <<"REPOSITORY CLONE FAILED",
                          args.targets_info[todo[failAt]].original>>)

CloneRepositories ==
    /\ pc = "clone_repository"
    /\ \E failAt \in 0..Len(args.targets_info) : clone_repositories(failAt)
    /\ UNCHANGED env
    /\ UNCHANGED flowVars
    /\ UNCHANGED gateVars

\* the engine main() hands args to
engine_of(a) == IF a.non_interactive THEN "run_cli" ELSE "run_tui"

\* what the tracer may hold once the engine has returned
TracerOutcomes ==
    {NoTracer} \cup
    [present : {TRUE}, scan_completed : BOOLEAN, vulnerability_reports : 0..MaxReports]

RunEngine ==
    /\ pc = "run_engine"
    /\ calls' = Append(calls, Call(engine_of(args), args.run_name))
    /\ tracer' \in TracerOutcomes
    /\ pc' = AfterStage("run_engine")
    /\ UNCHANGED <<args, env, litellm, missing_required_vars,
                   missing_optional_vars, diagnostic, exit_code, auxVars>>
    /\ UNCHANGED flowVars

\* scan_completed as display_completion_message computes it
scan_completed == tracer.present /\ tracer.scan_completed

\* main() without the test of args.non_interactive before sys.exit(2)
final_exit_code_any_mode(a, t) ==
    IF t.present /\ t.vulnerability_reports > 0 THEN 2 ELSE 0

\* the status main() ends with after display_completion_message
final_exit_code(a, t) ==
    IF a.non_interactive /\ t.present /\ t.vulnerability_reports > 0 THEN 2 ELSE 0

DisplayCompletionMessage ==
    /\ pc = "display_completion_message"
    /\ Exit(final_exit_code(args, tracer),
            IF scan_completed THEN <<"AGENT FINISHED">> ELSE <<"SESSION ENDED">>)
    /\ UNCHANGED <<args, env, calls>>
    /\ UNCHANGED flowVars
    /\ UNCHANGED gateVars

-----------------------------------------------------------------------------
(* The whole program *)

Next ==
    \/ ParseArguments
    \/ MenuMoveUp
    \/ MenuMoveDown
    \/ MenuSelect
    \/ MenuQuit
    \/ InputSubmitted
    \/ InputQuit
    \/ ResolveTargets
    \/ CheckDockerInstalled
    \/ PullDockerImage
    \/ ValidateEnvironment
    \/ WarmUpLlm
    \/ CloneRepositories
    \/ RunEngine
    \/ DisplayCompletionMessage

Spec == Init /\ [][Next]_vars

-----------------------------------------------------------------------------
(* The gates under every environment: one command-line target, every       *)
(* combination of unset, empty and set variables.                          *)

InitEnv == Started /\ env \in Environments

ParseOneTarget ==
    /\ pc = "parse_arguments"
    /\ \E raw \in {"git@github.com:acme/app.git", "https://staging.acme.com"},
          non_interactive \in BOOLEAN :
            parse_arguments(<<raw>>, <<>>, "", non_interactive)
    /\ UNCHANGED <<prompt, selected_index, choice, targets, credentials, env,
                   calls, last_event, configVars>>
    /\ UNCHANGED gateVars

NextEnv ==
    \/ ParseOneTarget
    \/ CheckDockerInstalled
    \/ PullDockerImage
    \/ ValidateEnvironment
    \/ WarmUpLlm
    \/ CloneRepositories
    \/ RunEngine
    \/ DisplayCompletionMessage

SpecEnv == InitEnv /\ [][NextEnv]_vars

-----------------------------------------------------------------------------
(* The interactive flow of menu.py, called on its own: the menu with its   *)
(* "Configuration" entry, the settings screen, the prompts and the         *)
(* resolution of the targets, up to the return of the function.            *)

\* the stored configurations the flow may find
MenuFiles ==
    {NoFile,
     [exists |-> TRUE, lines |-> EmptyDict],
     [exists |-> TRUE,
      lines  |-> [EmptyDict EXCEPT !["STRIX_LLM"] = "openai/gpt-5",
                                   !["LLM_API_KEY"] = "sk-key",
                                   !["OLLAMA_API_BASE"] = "http://ollama",
                                   !["HTTP_PROXY"] = "http://proxy"]],
     [exists |-> TRUE,
      lines  |-> [EmptyDict EXCEPT !["STRIX_LLM"] = "",
                                   !["LLM_API_KEY"] = Bare,
                                   !["PERPLEXITY_API_KEY"] = "pplx-key",
                                   !["LLM_API_BASE"] = "http://llm"]]}

\* the environments the flow may start in
MenuEnvironments ==
    {EmptyDict,
     [EmptyDict EXCEPT !["STRIX_LLM"] = "openai/gpt-4",
                       !["LLM_API_KEY"] = "",
                       !["LLM_API_BASE"] = "http://old"]}

InitMenu ==
    /\ pc = "show_interactive_menu"
    /\ flow = "MenuDisplay"
    /\ flow_module = "menu.py"
    /\ config_file \in MenuFiles
    /\ env \in MenuEnvironments
    /\ args = EmptyArgs
    /\ prompt = None
    /\ selected_index = 0
    /\ choice = 0
    /\ targets = <<>>
    /\ credentials = None
    /\ last_event = <<>>
    /\ inputs = NoInputs
    /\ last_op = NoOp
    /\ litellm = [api_key |-> None, api_base |-> None]
    /\ missing_required_vars = <<>>
    /\ missing_optional_vars = <<>>
    /\ tracer = NoTracer
    /\ image_present = FALSE
    /\ pull = NoPull
    /\ invocations = NoInvocations
    /\ calls = <<>>
    /\ diagnostic = <<>>
    /\ exit_code = <<>>

NextMenu ==
    \/ MenuMoveUp
    \/ MenuMoveDown
    \/ MenuSelect
    \/ MenuQuit
    \/ ConfigInput
    \/ ConfigSave
    \/ ConfigQuit
    \/ InputSubmitted
    \/ InputQuit
    \/ ResolveTargets

SpecMenu == InitMenu /\ [][NextMenu]_vars

-----------------------------------------------------------------------------
(* ConfigManager on its own: a client calls its class methods in any order *)
(* on a file that holds a required key, an optional key and a key          *)
(* ConfigManager does not know.                                            *)

StoreSampleKeys == {"STRIX_LLM", "LLM_API_BASE", "HTTP_PROXY"}

\* the value a sample key has in the file at the start
StoredValue(k) ==
    CASE k = "STRIX_LLM"    -> "openai/gpt-5"
      [] k = "LLM_API_BASE" -> "http://llm"
      [] k = "HTTP_PROXY"   -> "http://proxy"

\* the value a call gives to a sample key
GivenValue(k) ==
    CASE k = "STRIX_LLM"    -> "anthropic/claude"
      [] k = "LLM_API_BASE" -> "http://new"
      [] k = "HTTP_PROXY"   -> "http://proxy2"

\* the functions on StoreKeys that take at each sample key one of the values
\* choices allows, and None elsewhere
SampleDicts(choices) ==
    {[k \in StoreKeys |-> IF k \in StoreSampleKeys THEN d[k] ELSE None] :
        d \in {f \in [StoreSampleKeys -> UNION {choices[k] : k \in StoreSampleKeys}] :
                 \A k \in StoreSampleKeys : f[k] \in choices[k]}}

\* what the file may hold at a sample key at the start
FileChoices ==
    [k \in StoreSampleKeys |->
        IF k = "LLM_API_BASE" THEN {None, "", StoredValue(k)}
        ELSE {None, Bare, "", StoredValue(k)}]

\* what a dict given to a call may hold at a sample key
PartialChoices ==
    [k \in StoreSampleKeys |->
        IF k = "HTTP_PROXY" THEN {None, GivenValue(k)}
        ELSE {None, "", GivenValue(k)}]

\* no file, or a file with no line, a bare line, an empty or a non-empty value
\* at each sample key
StoreFiles ==
    {NoFile} \cup {[exists |-> TRUE, lines |-> d] : d \in SampleDicts(FileChoices)}

\* the dicts a call of save_config or update_config is given
Partials == SampleDicts(PartialChoices)

StoreEnvironments ==
    {EmptyDict,
     [EmptyDict EXCEPT !["STRIX_LLM"] = "openai/gpt-4", !["HTTP_PROXY"] = ""]}

\* a process that only calls methods of ConfigManager
StoreProcess ==
    /\ pc = "ConfigManager"
    /\ flow = "Idle"
    /\ flow_module = "config_manager.py"
    /\ args = EmptyArgs
    /\ prompt = None
    /\ selected_index = 0
    /\ choice = 0
    /\ targets = <<>>
    /\ credentials = None
    /\ last_event = <<>>
    /\ inputs = NoInputs
    /\ last_op = NoOp
    /\ litellm = [api_key |-> None, api_base |-> None]
    /\ missing_required_vars = <<>>
    /\ missing_optional_vars = <<>>
    /\ tracer = NoTracer
    /\ image_present = FALSE
    /\ pull = NoPull
    /\ invocations = NoInvocations
    /\ calls = <<>>
    /\ diagnostic = <<>>
    /\ exit_code = <<>>

InitStore ==
    /\ StoreProcess
    /\ config_file \in StoreFiles
    /\ env \in StoreEnvironments

\* what no method of ConfigManager touches
storeUnchanged ==
    <<pc, args, flow, prompt, selected_index, choice, targets, credentials,
      last_event, flow_module, inputs, litellm, missing_required_vars,
      missing_optional_vars, tracer, auxVars, calls, diagnostic, exit_code>>

\* ConfigManager.load_config() (get_all_config, get_value): the file is
\* created when missing
LoadConfig ==
    /\ pc = "ConfigManager"
    /\ config_file' = ensure_config_dir(config_file)
    /\ last_op' = Op("load_config", EmptyDict, config_file)
    /\ UNCHANGED <<env, storeUnchanged>>

\* ConfigManager.save_config(partial)
SaveConfig ==
    /\ pc = "ConfigManager"
    /\ \E partial \in Partials :
          /\ config_file' = save_config(config_file, partial)
          /\ last_op' = Op("save_config", partial, config_file)
    /\ UNCHANGED <<env, storeUnchanged>>

\* ConfigManager.update_config(partial)
UpdateConfig ==
    /\ pc = "ConfigManager"
    /\ \E partial \in Partials :
          /\ config_file' = update_config(config_file, partial)
          /\ last_op' = Op("update_config", partial, config_file)
    /\ UNCHANGED <<env, storeUnchanged>>

\* ConfigManager.set_value(key, value)
SetValue ==
    /\ pc = "ConfigManager"
    /\ \E key \in StoreSampleKeys :
          \E value \in {"", GivenValue(key)} :
             /\ config_file' = set_value(config_file, key, value)
             /\ last_op' = Op("set_value", [EmptyDict EXCEPT ![key] = value],
                              config_file)
    /\ UNCHANGED <<env, storeUnchanged>>

\* ConfigManager.apply_to_environment()
ApplyToEnvironment ==
    /\ pc = "ConfigManager"
    /\ env' = apply_to_environment(config_file, env)
    /\ config_file' = ensure_config_dir(config_file)
    /\ last_op' = Op("apply_to_environment", EmptyDict, config_file)
    /\ UNCHANGED storeUnchanged

\* the contents of the settings form a save may find: the model identifier
\* blank, whitespace or typed, the endpoint override blank or typed
FormContents ==
    {[NoInputs EXCEPT !["STRIX_LLM"] = model, !["LLM_API_BASE"] = base] :
        model \in FieldTexts("STRIX_LLM"),
        base \in {"", PaddedValue("LLM_API_BASE")}}

\* ConfigurationApp.action_save seen from the store: ctrl+s on a form that
\* holds fields
SettingsSave ==
    /\ pc = "ConfigManager"
    /\ \E fields \in FormContents :
          LET updates == config_updates(config_file, fields)
              saved   == update_then_apply(config_file, env, updates)
          IN  /\ config_file' = saved.file
              /\ env' = saved.environ
              /\ litellm' = save_litellm(updates)
              /\ last_op' = Op("action_save", updates, config_file)
    /\ UNCHANGED <<pc, args, flow, prompt, selected_index, choice, targets,
                   credentials, last_event, flow_module, inputs,
                   missing_required_vars, missing_optional_vars, tracer, auxVars,
                   calls, diagnostic, exit_code>>

NextStore ==
    \/ LoadConfig
    \/ SaveConfig
    \/ UpdateConfig
    \/ SetValue
    \/ ApplyToEnvironment
    \/ SettingsSave

SpecStore == InitStore /\ [][NextStore]_vars

-----------------------------------------------------------------------------
(* Reading the history of calls *)

Called(name) == \E i \in 1..Len(calls) : calls[i][1] = name

IsPrefix(s, t) == Len(s) <= Len(t) /\ SubSeq(t, 1, Len(s)) = s

Last(s) == s[Len(s)]

EngineCalled == Called("run_cli") \/ Called("run_tui")

\* the calls of a run that gets to the scan engine, with or without a pull
FullRun(withPull) ==
    <<Call("shutil.which", "docker"),
      Call("check_docker_connection", ""),
      Call("image_exists", "STRIX_IMAGE")>>
    \o When(withPull, <<Call("client.api.pull", "STRIX_IMAGE")>>)
    \o <<Call("validate_environment", ""),
         Call("litellm.completion", litellm.api_base)>>
    \o [k \in 1..Len(CloneIndices(args.targets_info, 1)) |->
          Call("clone_repository",
               args.targets_info[CloneIndices(args.targets_info, 1)[k]].original)]
    \o <<Call(engine_of(args), args.run_name)>>

-----------------------------------------------------------------------------
(* Claims *)

\* C1: in every run the calls made so far are an initial part of the fixed
\* sequence docker CLI check, engine connection, image check, (pull),
\* credential validation, warm-up request, one clone per repository target
\* (and for no other target), scan engine: each stage runs at most once, in
\* this order, and the engine is called only when all of them have returned.
C1_StageOrder ==
    /\ \E withPull \in BOOLEAN : IsPrefix(calls, FullRun(withPull))
    /\ \A i \in 1..Len(calls) :
          calls[i][1] = "clone_repository" =>
             \E j \in 1..Len(args.targets_info) :
                /\ args.targets_info[j].original = calls[i][2]
                /\ args.targets_info[j].type = "repository"
    /\ EngineCalled =>
          /\ \E withPull \in BOOLEAN : calls = FullRun(withPull)
          /\ \A j \in 1..Len(args.targets_info) :
                args.targets_info[j].cloned_repo_path
                   <=> args.targets_info[j].type = "repository"

\* C1 witness: a run with a pull, a clone and a target that is not cloned
\* has reached the scan engine
C1_Witness ==
    /\ EngineCalled
    /\ Called("client.api.pull")
    /\ Called("clone_repository")
    /\ \E j \in 1..Len(args.targets_info) : args.targets_info[j].type = "web_application"

\* the stage a failed gate belongs to, by the message it prints
GateFailures ==
    {<<"DOCKER NOT INSTALLED", "shutil.which">>,
     <<"FAILED TO PULL IMAGE", "client.api.pull">>,
     <<"MISSING REQUIRED ENVIRONMENT VARIABLES", "validate_environment">>,
     <<"LLM CONNECTION FAILED", "litellm.completion">>}

\* C2: when a gate has failed (the docker CLI is missing, the pull raised a
\* DockerException, a required variable is missing, the warm-up raised), the
\* process has exited with code 1, the failing gate's call is the last call
\* made, and no clone and no scan-engine call has happened.
C2_FailedGateIsTerminal ==
    /\ \A f \in GateFailures :
          (diagnostic # <<>> /\ diagnostic[1] = f[1]) =>
             /\ exit_code = <<1>>
             /\ pc = "exited"
             /\ calls # <<>> /\ Last(calls)[1] = f[2]
             /\ ~Called("clone_repository") /\ ~EngineCalled
             /\ tracer = NoTracer
    /\ (Called("validate_environment") /\ missing_required_vars # <<>>) =>
          /\ exit_code = <<1>>
          /\ Last(calls)[1] = "validate_environment"
    /\ pc = "exited" => ~ENABLED Next

\* C2 witness: a run with a pull and a repository target has failed at the
\* warm-up, the last of the four gates
C2_Witness ==
    /\ exit_code = <<1>>
    /\ diagnostic[1] = "LLM CONNECTION FAILED"
    /\ Called("client.api.pull")
    /\ \E j \in 1..Len(args.targets_info) : args.targets_info[j].type = "repository"

\* C3 as stated: with STRIX_LLM unset no container call (connection check,
\* image check, pull) and no network call (LLM request, clone) is ever made.
C3_NoCallBeforeValidation ==
    env["STRIX_LLM"] = None =>
       /\ ~Called("check_docker_connection")
       /\ ~Called("image_exists")
       /\ ~Called("client.api.pull")
       /\ ~Called("litellm.completion")
       /\ ~Called("clone_repository")

\* C3 as amended: with STRIX_LLM unset or empty no LLM request, no clone and
\* no scan-engine call is ever made, and a run that gets to the credential
\* validation exits there with code 1 naming STRIX_LLM; by then the
\* connection check and the image check have been made.
C3_NoNetworkCallWithoutModel ==
    ~Truthy(env["STRIX_LLM"]) =>
       /\ ~Called("litellm.completion")
       /\ ~Called("clone_repository")
       /\ ~EngineCalled
       /\ Called("validate_environment") =>
             /\ exit_code = <<1>>
             /\ \E i \in 2..Len(diagnostic) : diagnostic[i] = "STRIX_LLM"
             /\ Called("check_docker_connection")
             /\ Called("image_exists")

\* C3 witness: STRIX_LLM is unset, the image was pulled and validation has
\* ended the process
C3_Witness ==
    /\ env["STRIX_LLM"] = None
    /\ exit_code = <<1>>
    /\ Called("validate_environment")
    /\ Called("client.api.pull")

\* C4 as stated: once the engine has returned and the process has ended, the
\* exit code is 2 for a non-interactive run with reports, 0 for a
\* non-interactive completed run without reports, 0 for an interactive run;
\* and exit code 2 never comes from a failure that precedes the engine.
C4_ExitCodes ==
    /\ (pc = "exited" /\ EngineCalled) =>
          /\ (args.non_interactive /\ tracer.vulnerability_reports > 0)
                => exit_code = <<2>>
          /\ (args.non_interactive /\ scan_completed /\ tracer.vulnerability_reports = 0)
                => exit_code = <<0>>
          /\ ~args.non_interactive => exit_code = <<0>>
    /\ exit_code = <<2>> => EngineCalled

C6_InvalidTargetExitsOne ==
    (diagnostic # <<>> /\ diagnostic[1] = "Invalid target") =>
       /\ exit_code = <<1>>
       /\ \E i \in 1..Len(args.target) :
             /\ args.target[i] = diagnostic[2]
             /\ infer_target_type(diagnostic[2]) = "ValueError"

\* C7: once main() is past target resolution (at the first gate or later),
\* args.targets_info is non-empty and has one resolved entry per raw target.
C7_TargetsNonEmpty ==
    (/\ pc \notin {"parse_arguments", "show_interactive_menu"}
     /\ pc = "exited" => calls # <<>>) =>
       /\ args.targets_info # <<>>
       /\ Len(args.targets_info) = Len(args.target)
       /\ \A i \in 1..Len(args.targets_info) :
             args.targets_info[i].type # "ValueError"

\* C7 witness: the interactive multi-target flow has handed two targets to
\* the first gate
C7_Witness ==
    /\ pc = "check_docker_installed"
    /\ flow = "Done"
    /\ choice \in MultiTargetChoices
    /\ Len(args.targets_info) = 2

Contains(s, x) == \E i \in 1..Len(s) : s[i] = x

OverrideKeys == {"LLM_API_BASE", "OPENAI_API_BASE", "LITELLM_BASE_URL", "OLLAMA_API_BASE"}

\* C8: after validation has run with LLM_API_KEY unset or empty, the key is
\* in the missing-required list (and not in the optional one) when none of
\* the four endpoint overrides is non-empty, and in the missing-optional
\* list (and not in the required one) when any one of them is; STRIX_LLM
\* unset or empty is in the missing-required list whatever the overrides.
C8_CredentialClassification ==
    Called("validate_environment") =>
       /\ ~Truthy(env["LLM_API_KEY"]) =>
             IF \E k \in OverrideKeys : env[k] \notin {None, ""}
             THEN /\ Contains(missing_optional_vars, "LLM_API_KEY")
                  /\ ~Contains(missing_required_vars, "LLM_API_KEY")
             ELSE /\ Contains(missing_required_vars, "LLM_API_KEY")
                  /\ ~Contains(missing_optional_vars, "LLM_API_KEY")
       /\ Truthy(env["LLM_API_KEY"]) =>
             /\ ~Contains(missing_required_vars, "LLM_API_KEY")
             /\ ~Contains(missing_optional_vars, "LLM_API_KEY")
       /\ Contains(missing_required_vars, "STRIX_LLM") <=> ~Truthy(env["STRIX_LLM"])

\* C8 witness: validation has run with the credential unset and
\* OLLAMA_API_BASE, the last override, as the only one that is set
C8_Witness ==
    /\ Called("validate_environment")
    /\ env["LLM_API_KEY"] = None
    /\ env["OLLAMA_API_BASE"] = "http://ollama"
    /\ \A k \in OverrideKeys \ {"OLLAMA_API_BASE"} : ~Truthy(env[k])
    /\ Contains(missing_optional_vars, "LLM_API_KEY")

\* C9: once validation has run, the process has exited there with code 1 if
\* and only if the missing-required list is non-empty; with an empty
\* missing-required list the run goes on to the warm-up, whatever is in the
\* missing-optional list.
C9_AbortIffMissingRequired ==
    Called("validate_environment") =>
       /\ missing_required_vars # <<>> <=>
             /\ exit_code = <<1>>
             /\ Last(calls)[1] = "validate_environment"
             /\ diagnostic[1] = "MISSING REQUIRED ENVIRONMENT VARIABLES"
       /\ (missing_required_vars = <<>> /\ Last(calls)[1] = "validate_environment")
             => (pc = "warm_up_llm" /\ exit_code = <<>>)
       /\ missing_required_vars = <<>> =>
             (Called("litellm.completion") \/ pc = "warm_up_llm")

\* C9 witness: a run is at the warm-up although the search key and the
\* credential (made optional by an override) are both missing
C9_Witness ==
    /\ pc = "warm_up_llm"
    /\ missing_required_vars = <<>>
    /\ Contains(missing_optional_vars, "LLM_API_KEY")
    /\ Contains(missing_optional_vars, "PERPLEXITY_API_KEY")

\* the first non-empty endpoint override in the fixed order, None without one
ActiveEndpoint ==
    LET set == {i \in 1..Len(EndpointOverrides) :
                  env[EndpointOverrides[i]] \notin {None, ""}}
    IN  IF set = {} THEN None
        ELSE env[EndpointOverrides[CHOOSE i \in set : \A j \in set : i <= j]]

\* C10: the endpoint in force when the warm-up request is made is the first
\* non-empty override in the order LLM_API_BASE, OPENAI_API_BASE,
\* LITELLM_BASE_URL, OLLAMA_API_BASE, and no endpoint is set without one.
C10_ActiveEndpoint ==
    \A i \in 1..Len(calls) :
       calls[i][1] = "litellm.completion" =>
          /\ calls[i][2] = ActiveEndpoint
          /\ litellm.api_base = ActiveEndpoint

\* C10 witness: the request was made with the first two overrides empty or
\* unset and the last two set: the third one is the endpoint
C10_Witness ==
    /\ Called("litellm.completion")
    /\ env["LLM_API_BASE"] = ""
    /\ env["OPENAI_API_BASE"] = None
    /\ env["LITELLM_BASE_URL"] = "http://litellm"
    /\ env["OLLAMA_API_BASE"] = "http://ollama"
    /\ litellm.api_base = "http://litellm"

\* the number of completion requests made so far
CompletionRequests ==
    Cardinality({i \in 1..Len(calls) : calls[i][1] = "litellm.completion"})

WarmUpFailed == diagnostic # <<>> /\ diagnostic[1] = "LLM CONNECTION FAILED"

\* C11: a run makes at most one completion request, and exactly one once it
\* is past the warm-up; when the request or the validation of its response
\* raised, the process has ended with exit code 1 right after that one
\* request and the diagnostic holds the text of the error; otherwise the run
\* has gone on to the stages after the warm-up.
C11_OneProbeNoRetry ==
    /\ CompletionRequests <= 1
    /\ pc \in {"clone_repository", "run_engine", "display_completion_message"}
          => CompletionRequests = 1
    /\ WarmUpFailed =>
          /\ CompletionRequests = 1
          /\ Last(calls)[1] = "litellm.completion"
          /\ pc = "exited"
          /\ exit_code = <<1>>
          /\ \E e \in WarmUpErrors : Contains(diagnostic, e)
    /\ (CompletionRequests = 1 /\ ~WarmUpFailed) =>
          /\ pc # "warm_up_llm"
          /\ pc = "exited" => Last(calls)[1] # "litellm.completion"

\* C11 witness: the response of the one request failed its validation and the
\* process ended with exit code 1
C11_Witness ==
    /\ CompletionRequests = 1
    /\ exit_code = <<1>>
    /\ diagnostic = <<"LLM CONNECTION FAILED", "validate_llm_response raises">>

-----------------------------------------------------------------------------
(* Reading the history of key events *)

\* the last event was Enter in a prompt
Submitted == Len(last_event) = 3 /\ last_event[1] = "prompt" /\ last_event[2] = "enter"

\* the last event was Enter in a prompt on a blank or whitespace-only line
SubmittedBlank == Submitted /\ strip(last_event[3]) = ""

\* the last event was escape in a prompt
Escaped == last_event = <<"prompt", "escape">>

\* the multi-target loop is asking for the next target
CollectingTargets ==
    /\ pc = "show_interactive_menu"
    /\ flow = "AwaitingMultiInput"
    /\ prompt = "target"
    /\ exit_code = <<>>

\* the multi-target loop was left by `break`: args.target is the list collected
CollectionEnded ==
    /\ flow \in {"Resolving", "Done", "Failed"}
    /\ args.target = targets

\* C12: when the last key event of a multi-target preset is a blank (or
\* whitespace-only) submission, either no target had been collected and the
\* loop is still asking for one with the list empty, or at least one target
\* had been collected and the collection has ended with that list: a blank
\* line ends the collection exactly when the list is not empty.
C12_BlankInMultiInput ==
    (choice \in MultiTargetChoices /\ SubmittedBlank) =>
        \/ CollectingTargets /\ targets = <<>>
        \/ CollectionEnded /\ targets # <<>>

\* C12 witness: a whitespace-only line has just ended the collection of two
\* targets
C12_Witness ==
    /\ choice \in MultiTargetChoices
    /\ last_event = <<"prompt", "enter", "   ">>
    /\ flow = "Resolving"
    /\ Len(targets) = 2

\* a blank line has just been ignored by the multi-target loop
BlankIgnored ==
    /\ choice \in MultiTargetChoices
    /\ SubmittedBlank
    /\ CollectingTargets
    /\ targets = <<>>

\* C13: escape in the multi-target prompt with at least one target collected
\* does not cancel: the step leaves the collected list as it is, hands
\* exactly that list to the resolution of the targets and the process goes on.
C13_EscapeKeepsCollected ==
    [][(flow = "AwaitingMultiInput" /\ targets # <<>> /\ Escaped')
         => /\ flow' = "Resolving"
            /\ targets' = targets
            /\ args'.target = targets
            /\ exit_code' = <<>>]_vars

\* C13 witness: the collection of one target was ended by escape and the flow
\* has returned the run configuration of that target
C13_Witness ==
    /\ choice \in MultiTargetChoices
    /\ Escaped
    /\ flow = "Done"
    /\ pc = "check_docker_installed"
    /\ Len(args.targets_info) = 1
    /\ args.targets_info[1].original = targets[1]

\* C14: quitting the menu, escape in the single-target prompt and escape in
\* the multi-target prompt with nothing collected all cancel the flow, and a
\* cancelled flow is a process that has ended with exit code 0 without a
\* resolved target, without a call of a gate and without the scan engine.
C14_CancelBeforeTargets ==
    /\ last_event = <<"menu", "escape">> => flow = "Cancelled"
    /\ (Escaped /\ targets = <<>> /\ args.target = <<>>) => flow = "Cancelled"
    /\ flow = "Cancelled" =>
          /\ pc = "exited"
          /\ exit_code = <<0>>
          /\ args.target = <<>>
          /\ args.targets_info = <<>>
          /\ calls = <<>>
          /\ tracer = NoTracer

\* C14 witness: escape in the multi-target prompt before any target was
\* collected has ended the process with exit code 0
C14_Witness ==
    /\ choice \in MultiTargetChoices
    /\ Escaped
    /\ flow = "Cancelled"
    /\ targets = <<>>
    /\ exit_code = <<0>>

\* everything but the history of key events
stateVars ==
    <<pc, args, flow, prompt, selected_index, choice, targets, credentials,
      configVars, env, litellm, missing_required_vars, missing_optional_vars,
      tracer, auxVars, calls, diagnostic, exit_code>>

\* C15: in a prompt that does not allow an empty value a blank or
\* whitespace-only submission changes nothing, the prompt is left only by
\* escape or by a submission that is not blank, and the value it then hands
\* over is not empty; in a prompt that allows an empty value a blank
\* submission completes the prompt with the empty value: the credentials
\* become "", the instruction prompts hand over to the resolution of the
\* targets with no instruction text added, and the multi-target prompt is
\* completed as well (asked again with an empty list, left with a full one).
C15_EmptySubmission ==
    [][InPrompt =>
        /\ (~allow_empty /\ SubmittedBlank') => UNCHANGED stateVars
        /\ (~allow_empty /\ (flow' # flow \/ prompt' # prompt \/ args' # args)) =>
              \/ Escaped' /\ flow' = "Cancelled"
              \/ /\ Submitted' /\ strip(last_event'[3]) # ""
                 /\ args'.target = <<strip(last_event'[3])>>
        /\ (allow_empty /\ SubmittedBlank') =>
              CASE flow = "AwaitingMultiInput" ->
                      IF targets = <<>> THEN UNCHANGED stateVars
                      ELSE flow' = "Resolving"
                [] prompt = "credentials" ->
                      credentials' = "" /\ prompt' = "additional instructions"
                [] prompt = "instruction" ->
                      flow' = "Resolving" /\ args'.instruction = args.instruction
                [] OTHER ->
                      /\ flow' = "Resolving"
                      /\ args'.instruction =
                            IF Truthy(credentials)
                            THEN <<"Test with credentials: ", credentials, ".">>
                            ELSE args.instruction
      ]_vars

\* C15 witness: a whitespace-only line was submitted to the single-target
\* prompt and the prompt is still open with nothing entered
C15_Witness ==
    /\ last_event = <<"prompt", "enter", "   ">>
    /\ pc = "show_interactive_menu"
    /\ flow = "AwaitingSingleInput"
    /\ prompt = "target"
    /\ args.target = <<>>
    /\ exit_code = <<>>

\* a blank line has completed the credentials prompt with the empty value
BlankAccepted ==
    /\ SubmittedBlank
    /\ prompt = "additional instructions"
    /\ credentials = ""

Rejected(raw) == infer_target_type(raw) = "ValueError"

\* C19: the step that resolves the targets of the interactive flow ends the
\* process with exit code 1 as soon as a target is rejected: the targets
\* before it, in the order of their collection, are the only ones classified,
\* the diagnostic names the rejected string, no workspace directory has been
\* assigned, no gate has been called, and no step follows; the flow is
\* completed only when no target is rejected, and never goes back to the menu.
C19_FirstFailureAborts ==
    [][/\ flow = "Resolving" =>
            IF \E i \in 1..Len(args.target) : Rejected(args.target[i])
            THEN LET n == Len(args'.targets_info)
                 IN  /\ flow' = "Failed"
                     /\ pc' = "exited"
                     /\ exit_code' = <<1>>
                     /\ n < Len(args.target)
                     /\ \A i \in 1..n :
                           /\ args'.targets_info[i].original = args.target[i]
                           /\ ~Rejected(args.target[i])
                           /\ args'.targets_info[i].workspace_subdir = None
                     /\ Rejected(args.target[n + 1])
                     /\ diagnostic' = <<"Invalid target", args.target[n + 1]>>
                     /\ calls' = <<>>
            ELSE flow' = "Done"
       /\ flow = "Failed" => FALSE
      ]_vars

\* C19 witness: the second of two collected targets was rejected after the
\* first one had been classified, and the process has ended with exit code 1
C19_Witness ==
    /\ flow = "Failed"
    /\ exit_code = <<1>>
    /\ args.target = <<"./app", "bogus">>
    /\ Len(args.targets_info) = 1
    /\ calls = <<>>

\* C16: right after Enter in the menu of menu.py, the multi-target prompt is
\* open exactly when entry 4 or 5 was chosen, the single-target prompt exactly
\* when another of the seven presets was chosen, and the settings screen
\* exactly when entry 8, "Configuration", was chosen; a prompt that has just
\* been opened asks for a target with nothing collected, and no prompt is open
\* in the settings screen.
C16_MenuSelection ==
    last_event = <<"menu", "enter">> =>
        /\ choice \in 1..8
        /\ flow = "AwaitingMultiInput" <=> choice \in {4, 5}
        /\ flow = "AwaitingSingleInput" <=> choice \in {1, 2, 3, 6, 7}
        /\ flow = "SettingsScreen" <=> choice = 8
        /\ flow \in {"AwaitingMultiInput", "AwaitingSingleInput"} =>
              prompt = "target" /\ targets = <<>> /\ args.target = <<>>
        /\ flow = "SettingsScreen" => prompt = None

\* C16 witness: entry 5, "Test multiple environments", was chosen and the
\* multi-target prompt is open
C16_Witness ==
    /\ flow_module = "menu.py"
    /\ last_event = <<"menu", "enter">>
    /\ choice = 5
    /\ flow = "AwaitingMultiInput"

\* entry 8 was chosen and the settings screen is open
SettingsOpened ==
    /\ last_event = <<"menu", "enter">>
    /\ choice = 8
    /\ flow = "SettingsScreen"

\* the last event was ctrl+s or escape in the settings screen
SettingsLeft == last_event \in {<<"config", "ctrl+s">>, <<"config", "escape">>}

\* C17: a step taken in the settings screen stays there or goes back to the
\* menu, and the function neither returns nor exits on it; ctrl+s and escape
\* both go back to the menu; and the menu they go back to is a new one from
\* which the "Configuration" entry can be chosen again.
C17_SettingsNotTerminal ==
    /\ [][flow = "SettingsScreen" =>
             /\ flow' \in {"SettingsScreen", "MenuDisplay"}
             /\ pc' = "show_interactive_menu"
             /\ exit_code' = <<>>
             /\ SettingsLeft' => flow' = "MenuDisplay"]_vars
    /\ [](SettingsLeft =>
             /\ InMenu
             /\ selected_index = 0
             /\ exit_code = <<>>)
    /\ []((InMenu /\ flow_module = "menu.py"
              /\ selected_index = NumMenuOptionsWithConfiguration - 1)
            => ENABLED (MenuSelect /\ flow' = "SettingsScreen"))

\* C17 witness: the settings screen is open again after an earlier visit that
\* saved a new PERPLEXITY_API_KEY, which the form now shows
C17_Witness ==
    /\ flow = "SettingsScreen"
    /\ last_event = <<"menu", "enter">>
    /\ inputs["PERPLEXITY_API_KEY"] = "pplx-new"

\* C18: ctrl+s in the settings screen stores the values and then applies the
\* stored record to the environment: after the step every key of the form
\* whose field is not blank has the stripped text of the field both in the
\* stored record and in the environment, and every non-empty value of the
\* stored record, of the form or not, is in the environment.
C18_SaveThenApply ==
    [][(flow = "SettingsScreen" /\ last_event' = <<"config", "ctrl+s">>) =>
          LET stored == load_config(config_file')
          IN  /\ \A k \in FormKeys :
                    strip(inputs[k]) # "" =>
                        /\ stored[k] = strip(inputs[k])
                        /\ env'[k] = strip(inputs[k])
              /\ \A k \in StoreKeys : Truthy(stored[k]) => env'[k] = stored[k]
      ]_vars

\* C18 witness: a new model identifier typed with spaces around it has been
\* saved over another one: the file and the environment hold it stripped
C18_Witness ==
    /\ last_event = <<"config", "ctrl+s">>
    /\ flow = "MenuDisplay"
    /\ config_file.exists
    /\ config_file.lines["STRIX_LLM"] = "anthropic/claude"
    /\ env["STRIX_LLM"] = "anthropic/claude"
    /\ config_file.lines["HTTP_PROXY"] = "http://proxy"
    /\ env["HTTP_PROXY"] = "http://proxy"

\* C20: after save_config(partial) or update_config(partial), load_config
\* returns at every key the value of partial when partial holds the key and
\* otherwise what load_config returned before the call, no value when it held
\* none.
C20_SaveThenLoad ==
    last_op.name \in {"save_config", "update_config"} =>
        LET previous == load_config(last_op.before)
            partial  == last_op.partial
            loaded   == load_config(config_file)
        IN  \A k \in StoreKeys :
               loaded[k] = IF partial[k] # None THEN partial[k] ELSE previous[k]

\* C20 witness: save_config has given the model identifier a new value and an
\* empty endpoint override to a file that held another identifier and a
\* proxy: load_config returns the two new values and the proxy
C20_Witness ==
    /\ last_op.name = "save_config"
    /\ load_config(last_op.before)["STRIX_LLM"] = "openai/gpt-5"
    /\ load_config(last_op.before)["LLM_API_BASE"] = None
    /\ load_config(last_op.before)["HTTP_PROXY"] = "http://proxy"
    /\ Keys(last_op.partial) = {"STRIX_LLM", "LLM_API_BASE"}
    /\ load_config(config_file)["STRIX_LLM"] = "anthropic/claude"
    /\ load_config(config_file)["LLM_API_BASE"] = ""
    /\ load_config(config_file)["HTTP_PROXY"] = "http://proxy"

\* the keys ConfigManager does not know
UnknownKeys == StoreKeys \ (REQUIRED_KEYS \cup OPTIONAL_KEYS)

\* C21: no call of load, get, save, set, update, apply-to-environment or of
\* the save of the settings screen removes the line of a key outside the
\* recognised set, and a call that does not itself name the key leaves its
\* line as it is.
C21_UnknownKeysKept ==
    [][\A k \in UnknownKeys :
          config_file.lines[k] # None =>
             /\ config_file'.lines[k] # None
             /\ last_op'.partial[k] = None =>
                   config_file'.lines[k] = config_file.lines[k]]_vars

\* C21 witness: the save of the settings screen has stored a new model
\* identifier in a file that holds HTTP_PROXY, and the file still holds it
C21_Witness ==
    /\ last_op.name = "action_save"
    /\ last_op.before.lines["HTTP_PROXY"] = "http://proxy"
    /\ last_op.before.lines["STRIX_LLM"] = "openai/gpt-5"
    /\ config_file.lines["STRIX_LLM"] = "anthropic/claude"
    /\ config_file.lines["HTTP_PROXY"] = "http://proxy"

\* the persisted record holds no empty value
NoEmptyValue(file) == \A k \in StoreKeys : file.lines[k] # ""

\* C22 as stated: no write operation persists a key with an empty value, so
\* a record without an empty value never gets one.
C22_NoWritePersistsEmpty ==
    [][NoEmptyValue(config_file) => NoEmptyValue(config_file')]_vars

\* C22: the save of the settings screen names no key with an empty value and
\* adds no empty value to the persisted record; save, set and update persist
\* the value they are given for a key, the empty one included; and no call
\* gives an environment variable an empty value.
C22_OnlySettingsSaveDropsEmpty ==
    [][/\ last_op'.name = "action_save" =>
             \A k \in StoreKeys :
                /\ last_op'.partial[k] # ""
                /\ config_file'.lines[k] = "" => config_file.lines[k] = ""
       /\ last_op'.name \in {"save_config", "update_config", "set_value"} =>
             \A k \in StoreKeys :
                last_op'.partial[k] # None =>
                   config_file'.lines[k] = last_op'.partial[k]
       /\ \A k \in StoreKeys : env'[k] = "" => env[k] = ""]_vars

\* C22 witness: the settings screen was saved with a blank model field and a
\* typed endpoint over a file without a model identifier: the endpoint is
\* stored and no line was written for the model identifier
C22_Witness ==
    /\ last_op.name = "action_save"
    /\ last_op.before.lines["STRIX_LLM"] = None
    /\ last_op.partial["LLM_API_BASE"] = "http://new"
    /\ config_file.lines["LLM_API_BASE"] = "http://new"
    /\ config_file.lines["STRIX_LLM"] = None

\* C23: apply_to_environment gives the environment variable of every
\* persisted key with a non-empty value that value, whatever the variable
\* held, and leaves every other variable as it was (the variable of a key
\* persisted with an empty value or without a value included); no variable
\* that was set is unset.
C23_ApplyToEnvironmentFrame ==
    [][last_op'.name = "apply_to_environment" =>
          \A k \in StoreKeys :
             /\ IF last_op'.before.lines[k] \notin {None, Bare, ""}
                THEN env'[k] = last_op'.before.lines[k]
                ELSE env'[k] = env[k]
             /\ env[k] # None => env'[k] # None]_vars

\* C23 witness: apply_to_environment has replaced the value of STRIX_LLM by
\* the persisted one and has left HTTP_PROXY and LLM_API_BASE, both persisted
\* empty, as they were (one set to the empty string, one unset)
C23_Witness ==
    /\ last_op.name = "apply_to_environment"
    /\ last_op.before.lines["STRIX_LLM"] = "openai/gpt-5"
    /\ last_op.before.lines["HTTP_PROXY"] = ""
    /\ last_op.before.lines["LLM_API_BASE"] = ""
    /\ env["STRIX_LLM"] = "openai/gpt-5"
    /\ env["HTTP_PROXY"] = ""
    /\ env["LLM_API_BASE"] = None

\* C25: load_config on a missing ~/.strix/.env returns the empty record and
\* leaves the file missing; the file first exists after a save_config,
\* set_value or update_config.
C25_LoadDoesNotCreateStore ==
    [][/\ (last_op'.name = "load_config" /\ ~config_file.exists) =>
             /\ load_config(config_file) = EmptyDict
             /\ ~config_file'.exists
       /\ (~config_file.exists /\ config_file'.exists) =>
             last_op'.name \in {"save_config", "set_value", "update_config",
                                "action_save"}]_vars

-----------------------------------------------------------------------------
(* A run of main() with a ~/.strix/.env left by an earlier settings save     *)

\* the files a run may find: none, or one that holds the model identifier
\* and maybe the credential, with a value or empty
StartupFiles ==
    {NoFile} \cup
    {[exists |-> TRUE,
      lines  |-> [EmptyDict EXCEPT !["STRIX_LLM"] = EnvValue("STRIX_LLM"),
                                   !["LLM_API_KEY"] = credential]] :
        credential \in {None, "", EnvValue("LLM_API_KEY")}}

InitStartup ==
    /\ StartedProcess
    /\ config_file \in StartupFiles
    /\ env \in PipelineEnvironments

SpecStartup == InitStartup /\ [][NextEnv]_vars

\* C24: once validate_environment has run, every non-empty value of the
\* persisted record is the value of its environment variable, and a model
\* identifier and a credential held by the persisted record are not reported
\* missing.
C24_ConfigProjectedAtStartup ==
    Called("validate_environment") =>
       /\ \A k \in EnvKeys :
             Truthy(load_config(config_file)[k]) => env[k] = load_config(config_file)[k]
       /\ \A i \in 1..Len(missing_required_vars) :
             ~Truthy(load_config(config_file)[missing_required_vars[i]])

-----------------------------------------------------------------------------
(* The three entry points together: main(), menu.py's interactive flow and   *)
(* the methods of ConfigManager called directly                              *)

InitAll == Init \/ InitMenu \/ InitStore

NextAll ==
    \/ ParseArguments
    \/ MenuMoveUp
    \/ MenuMoveDown
    \/ MenuSelect
    \/ MenuQuit
    \/ ConfigInput
    \/ ConfigSave
    \/ ConfigQuit
    \/ InputSubmitted
    \/ InputQuit
    \/ ResolveTargets
    \/ CheckDockerInstalled
    \/ PullDockerImage
    \/ ValidateEnvironment
    \/ WarmUpLlm
    \/ CloneRepositories
    \/ RunEngine
    \/ DisplayCompletionMessage
    \/ LoadConfig
    \/ SaveConfig
    \/ UpdateConfig
    \/ SetValue
    \/ ApplyToEnvironment
    \/ SettingsSave

SpecAll == InitAll /\ [][NextAll]_vars

\* the step is a call of save_config, set_value or update_config, or a save
\* of the settings screen
WriteStep ==
    \/ /\ pc = "ConfigManager"
       /\ last_op'.name \in {"save_config", "set_value", "update_config", "action_save"}
    \/ InSettings /\ last_event' = <<"config", "ctrl+s">>

\* C26: a step that changes a line of ~/.strix/.env is a save of the settings
\* screen or a call of save_config, set_value or update_config; every other
\* step (load, get, apply-to-environment, opening the settings screen, a key
\* in the menu or in a prompt, typing into the settings form, validation,
\* warm-up) leaves the lines as they are, and Esc in the settings screen
\* leaves the lines and the environment as they are.
C26_OnlyWritesChangeTheRecord ==
    [][/\ config_file'.lines # config_file.lines => WriteStep
       /\ (InSettings /\ last_event' = <<"config", "escape">>) =>
             /\ config_file'.lines = config_file.lines
             /\ env' = env]_vars

\* C26 witness: the settings screen was opened over a file that holds a
\* model identifier and left with Esc, and the file still holds that value
\* while the environment has none
C26_Witness ==
    /\ last_event = <<"config", "escape">>
    /\ last_op.name = "get_all_config"
    /\ flow = "MenuDisplay"
    /\ config_file.lines["STRIX_LLM"] = "openai/gpt-5"
    /\ env["STRIX_LLM"] = None

-----------------------------------------------------------------------------
(* Two invocations inside update_config (or set_value) on the same          *)
(* ~/.strix/.env, no lock: each loads the record with one read, merges its   *)
(* updates, and save_config then calls set_key once per key of the merged    *)
(* record.  The steps of the two interleave freely.  set_key is taken as     *)
(* atomic, and the order in which save_config walks the record is left open. *)

RaceKeys == {"STRIX_LLM", "LLM_API_BASE"}

\* the value invocation i gives to a key
RaceValue(i, k) ==
    IF i = 1 THEN GivenValue(k)
    ELSE CASE k = "STRIX_LLM"    -> "openai/gpt-4"
           [] k = "LLM_API_BASE" -> "http://other"

\* the updates invocation i may be called with: one key (as set_value does)
\* or both
RacePartials(i) ==
    {[k \in StoreKeys |-> IF k \in named THEN RaceValue(i, k) ELSE None] :
        named \in (SUBSET RaceKeys) \ {{}}}

\* no file, a file holding both keys, a file holding the model identifier
RaceFiles ==
    {NoFile,
     [exists |-> TRUE, lines |-> [EmptyDict EXCEPT !["STRIX_LLM"] = StoredValue("STRIX_LLM")]],
     [exists |-> TRUE,
      lines  |-> [EmptyDict EXCEPT !["STRIX_LLM"] = StoredValue("STRIX_LLM"),
                                   !["LLM_API_BASE"] = StoredValue("LLM_API_BASE")]]}

InitRace ==
    /\ StoreProcess
    /\ config_file \in RaceFiles
    /\ env = EmptyDict

raceUnchanged ==
    <<pc, args, flow, prompt, selected_index, choice, targets, credentials,
      last_event, flow_module, inputs, last_op, env, litellm,
      missing_required_vars, missing_optional_vars, tracer, image_present, pull,
      calls, diagnostic, exit_code>>

\* update_config up to the call of save_config: `config = cls.load_config()`
\* and `config.update(updates)`
RaceLoad(i) ==
    /\ invocations.proc[i].pc = "idle"
    /\ \E updates \in RacePartials(i) :
          LET loaded == load_config(config_file)
              config == dict_update(loaded, updates)
          IN  invocations' =
                 [invocations EXCEPT !.proc[i] =
                     [pc |-> "save_config", updates |-> updates, loaded |-> loaded,
                      config |-> config, pending |-> Keys(config)]]
    /\ config_file' = ensure_config_dir(config_file)
    /\ UNCHANGED raceUnchanged

\* one turn of the loop of save_config: set_key(CONFIG_FILE, key, value)
RaceSetKey(i) ==
    /\ invocations.proc[i].pc = "save_config"
    /\ \E key \in invocations.proc[i].pending :
          /\ config_file' = set_key(config_file, key, invocations.proc[i].config[key])
          /\ invocations' =
                [invocations EXCEPT
                    !.proc[i].pending = @ \ {key},
                    !.proc[i].pc = IF invocations.proc[i].pending = {key} THEN "done"
                                   ELSE "save_config",
                    !.writer[key] = i]
    /\ UNCHANGED raceUnchanged

NextRace == \E i \in Invocations : RaceLoad(i) \/ RaceSetKey(i)

SpecRace == InitRace /\ [][NextRace]_vars

\* both invocations have returned
BothDone == \A i \in Invocations : invocations.proc[i].pc = "done"

\* C27 as stated: an update changes only the keys it names, so when both
\* invocations have returned, a key that only one of them named holds the
\* value that invocation gave it.
C27_WriteNeverReverted ==
    BothDone =>
       \A i \in Invocations : \A k \in StoreKeys :
          (/\ invocations.proc[i].updates[k] # None
           /\ \A j \in Invocations \ {i} : invocations.proc[j].updates[k] = None)
          => config_file.lines[k] = invocations.proc[i].updates[k]

\* C27: each invocation writes back every key of the record it has loaded,
\* merged with its updates, and each key holds what its last writer wrote;
\* so when both have returned, a key that only one invocation named holds
\* either the value that invocation gave it or the value the other one had
\* loaded before (the update is then reverted).
C27_LastWriterWinsPerWrittenKey ==
    /\ \A i \in Invocations : \A k \in StoreKeys :
          invocations.proc[i].pc # "idle" =>
             /\ invocations.proc[i].config[k] =
                   IF invocations.proc[i].updates[k] # None
                   THEN invocations.proc[i].updates[k]
                   ELSE invocations.proc[i].loaded[k]
             /\ (invocations.proc[i].pc = "done" /\ invocations.proc[i].config[k] # None)
                   => invocations.writer[k] # 0
    /\ \A k \in StoreKeys :
          invocations.writer[k] # 0 =>
             config_file.lines[k] = invocations.proc[invocations.writer[k]].config[k]
    /\ BothDone =>
          \A i \in Invocations : \A k \in StoreKeys :
             (/\ invocations.proc[i].updates[k] # None
              /\ \A j \in Invocations \ {i} : invocations.proc[j].updates[k] = None)
             => \/ config_file.lines[k] = invocations.proc[i].updates[k]
                \/ \E j \in Invocations \ {i} :
                      config_file.lines[k] = invocations.proc[j].loaded[k]

\* C27 witness: invocation 1 named the model identifier only, invocation 2
\* the endpoint only; both have returned and the file holds the model
\* identifier invocation 2 had loaded, not the one invocation 1 wrote
C27_Witness ==
    /\ BothDone
    /\ invocations.proc[1].updates["STRIX_LLM"] = "anthropic/claude"
    /\ invocations.proc[1].updates["LLM_API_BASE"] = None
    /\ invocations.proc[2].updates["STRIX_LLM"] = None
    /\ invocations.proc[2].updates["LLM_API_BASE"] = "http://other"
    /\ invocations.proc[2].loaded["STRIX_LLM"] = "openai/gpt-5"
    /\ config_file.lines["STRIX_LLM"] = "openai/gpt-5"
    /\ config_file.lines["LLM_API_BASE"] = "http://other"

\* targets_info has been built for every target: the command line was parsed
\* or the interactive flow is done, and no target was rejected
TargetsResolved ==
    /\ pc \notin {"parse_arguments", "show_interactive_menu"}
    /\ flow \in {"Idle", "Done"}
    /\ FirstInvalid(args.target) = 0

\* C28: once targets_info is built it has one entry per element of
\* args.target, the i-th entry made from the i-th element, equal elements
\* included; args.target of a multi-target preset is the list collected, and
\* each non-blank submission in the multi-target loop appends exactly its
\* (stripped) text to the end of that list.
C28_OneEntryPerTargetInOrder ==
    /\ [](TargetsResolved =>
            /\ Len(args.targets_info) = Len(args.target)
            /\ \A i \in 1..Len(args.target) :
                  args.targets_info[i].original = args.target[i]
            /\ (flow = "Done" /\ choice \in MultiTargetChoices) => args.target = targets)
    /\ [][(/\ flow = "AwaitingMultiInput"
           /\ last_event'[1] = "prompt"
           /\ last_event'[2] = "enter"
           /\ strip(last_event'[3]) # "")
          => targets' = Append(targets, strip(last_event'[3]))]_vars

\* C28 witness: the same directory was submitted twice in a multi-target
\* preset, and targets_info holds two entries for it, in two workspace
\* subdirectories
C28_Witness ==
    /\ TargetsResolved
    /\ flow = "Done"
    /\ targets = <<"./app", "./app">>
    /\ Len(args.targets_info) = 2
    /\ args.targets_info[1].original = "./app"
    /\ args.targets_info[2].original = "./app"
    /\ args.targets_info[1].workspace_subdir = "app"
    /\ args.targets_info[2].workspace_subdir = "app-2"

-----------------------------------------------------------------------------
(* pull_docker_image step by step: the connection and the existence check,  *)
(* then the pull stream read one frame at a time.  process_pull_line is in  *)
(* strix/interface/utils.py; it is modelled from section 4.4 of the         *)
(* specification.                                                            *)

\* the frames the model reads from one pull stream
MaxFrames == 3

\* the statuses a frame may give for a layer
PullStatuses == {"Downloading", "Extracting", "Pull complete"}

\* a decoded line of client.api.pull(stream=True, decode=True)
PullLines == [id : LayerIds, status : PullStatuses]

\* the summary line "N/M layers complete", as <<N, M>>
Summary(layers_info) ==
    <<Cardinality({l \in LayerIds : layers_info[l] = "Pull complete"}),
      Cardinality({l \in LayerIds : layers_info[l] # None})>>

\* process_pull_line calling status.update for every frame
process_pull_line_every_frame(line, p) ==
    LET layers_info == [p.layers_info EXCEPT ![line.id] = line.status]
    IN  [p EXCEPT !.layers_info = layers_info,
                  !.last_update = Summary(layers_info),
                  !.updates = Append(p.updates, Summary(layers_info)),
                  !.frames = p.frames + 1,
                  !.line = line]

\* process_pull_line(line, layers_info, status, last_update): the status of
\* the layer is replaced, and status.update is called (updates records it)
\* only with a summary that differs from last_update
process_pull_line(line, p) ==
    LET layers_info == [p.layers_info EXCEPT ![line.id] = line.status]
        summary     == Summary(layers_info)
    IN  [p EXCEPT !.layers_info = layers_info,
                  !.last_update = summary,
                  !.updates = IF summary # p.last_update THEN Append(p.updates, summary)
                              ELSE p.updates,
                  !.frames = p.frames + 1,
                  !.line = line]

\* pull_docker_image pulling whatever image_exists answers
needs_pull_always(present) == TRUE

\* `if image_exists(client, STRIX_IMAGE): return`
needs_pull(present) == ~present

pullUnchanged ==
    <<args, env, flowVars, litellm, missing_required_vars, missing_optional_vars,
      tracer, invocations>>

\* pull_docker_image up to the loop over the stream: check_docker_connection,
\* image_exists and, when the image is absent, client.api.pull
PullConnect ==
    /\ pc = "pull_docker_image"
    /\ \E connected \in BOOLEAN, present \in BOOLEAN :
          IF ~connected
          THEN docker_unavailable /\ UNCHANGED image_present
          ELSE /\ image_present' = present
               /\ UNCHANGED <<exit_code, diagnostic>>
               /\ IF needs_pull(present)
                  THEN /\ calls' = calls \o <<Call("check_docker_connection", ""),
                                              Call("image_exists", "STRIX_IMAGE"),
                                              Call("client.api.pull", "STRIX_IMAGE")>>
                       /\ pc' = "client.api.pull"
                  ELSE /\ calls' = calls \o <<Call("check_docker_connection", ""),
                                              Call("image_exists", "STRIX_IMAGE")>>
                       /\ pc' = AfterStage("pull_docker_image")
    /\ UNCHANGED <<pull, pullUnchanged>>

\* one turn of `for line in client.api.pull(...)`
PullFrame ==
    /\ pc = "client.api.pull"
    /\ pull.frames < MaxFrames
    /\ \E line \in PullLines : pull' = process_pull_line(line, pull)
    /\ UNCHANGED <<pc, image_present, calls, diagnostic, exit_code, pullUnchanged>>

\* the stream ends: "Successfully pulled Docker image"
PullEnd ==
    /\ pc = "client.api.pull"
    /\ pc' = AfterStage("pull_docker_image")
    /\ UNCHANGED <<pull, image_present, calls, diagnostic, exit_code, pullUnchanged>>

\* the stream raises DockerException: the error panel and sys.exit(1)
PullRaise ==
    /\ pc = "client.api.pull"
    /\ pull' = [pull EXCEPT !.raised = TRUE]
    /\ Exit(1, <<"FAILED TO PULL IMAGE", "DockerException">>)
    /\ UNCHANGED <<image_present, calls, pullUnchanged>>

InitPull == Started /\ env = [k \in EnvKeys |-> EnvValue(k)]

NextPull ==
    \/ ParseOneTarget
    \/ CheckDockerInstalled
    \/ PullConnect
    \/ PullFrame
    \/ PullEnd
    \/ PullRaise

SpecPull == InitPull /\ [][NextPull]_vars

\* position of the first call of name in calls, 0 if there is none
FirstCall(name) ==
    IF Called(name)
    THEN CHOOSE i \in 1..Len(calls) :
            calls[i][1] = name /\ \A j \in 1..(i - 1) : calls[j][1] # name
    ELSE 0

\* C29: pull_docker_image asks image_exists right after it has a client and
\* before any pull; when the image is present it returns to main() in that
\* same step with no pull stream opened; client.api.pull is called if and
\* only if image_exists answered that the image is absent; and a stream that
\* raises DockerException ends the process with exit code 1.
C29_ExistenceCheckFirst ==
    /\ [](/\ Called("image_exists") =>
                FirstCall("image_exists") = FirstCall("check_docker_connection") + 1
          /\ Called("client.api.pull") =>
                FirstCall("client.api.pull") = FirstCall("image_exists") + 1
          /\ Called("client.api.pull") <=> (Called("image_exists") /\ ~image_present)
          /\ (Called("image_exists") /\ image_present) =>
                /\ pc = AfterStage("pull_docker_image")
                /\ pull = NoPull
                /\ exit_code = <<>>
          /\ pull.raised =>
                /\ pc = "exited"
                /\ exit_code = <<1>>
                /\ diagnostic[1] = "FAILED TO PULL IMAGE")
    /\ [][(pc = "client.api.pull" /\ pc' = "exited") => pull'.raised]_vars

\* C29 witness: the image was absent, frames of the pull were read, and the
\* stream raised: the process has exited with code 1
C29_Witness ==
    /\ Called("client.api.pull")
    /\ ~image_present
    /\ pull.frames = 2
    /\ pull.raised
    /\ exit_code = <<1>>

\* C30: while the stream is read, layers_info holds for the layer of each
\* frame the status that frame gave and keeps the other layers; status.update
\* is called only in a turn that changes the summary line, with the new
\* summary; so there are never more updates than frames read, no two updates
\* in a row show the same text, and a frame that repeats the status of its
\* layer shows nothing.
C30_UpdateOnlyWhenSummaryChanges ==
    /\ [](/\ Len(pull.updates) <= pull.frames
          /\ \A i \in 1..(Len(pull.updates) - 1) : pull.updates[i] # pull.updates[i + 1]
          /\ pull.frames > 0 =>
                /\ pull.layers_info[pull.line.id] = pull.line.status
                /\ pull.last_update = Summary(pull.layers_info)
                /\ Last(pull.updates) = Summary(pull.layers_info))
    /\ [][pull'.frames = pull.frames + 1 =>
             /\ \A l \in LayerIds \ {pull'.line.id} :
                   pull'.layers_info[l] = pull.layers_info[l]
             /\ IF pull.frames > 0 /\ Summary(pull'.layers_info) = Summary(pull.layers_info)
                THEN pull'.updates = pull.updates
                ELSE pull'.updates = Append(pull.updates, Summary(pull'.layers_info))
             /\ pull'.line.status = pull.layers_info[pull'.line.id] =>
                   pull'.updates = pull.updates]_vars

\* C30 witness: three frames were read, the last two repeating the first, and
\* one update was shown: "0/1 layers complete"
C30_Witness ==
    /\ pull.frames = 3
    /\ pull.layers_info["a1b2"] = "Downloading"
    /\ pull.layers_info["c3d4"] = None
    /\ pull.updates = <<<<0, 1>>>>

-----------------------------------------------------------------------------
(* assign_workspace_subdirs on lists of -t targets with equal and            *)
(* suffix-like basenames                                                     *)

\* longest list of -t targets given to the allocation
MaxAllocTargets == 3

\* two targets with the slug app, a directory whose own name is app-2, a host
AllocTargets == {"./app", "git@github.com:acme/app.git", "./app-2", "example.com"}

InitAlloc == Started /\ env = [k \in EnvKeys |-> EnvValue(k)]

\* parse_arguments on an argv with the -t occurrences raws
ParseTargetList ==
    /\ pc = "parse_arguments"
    /\ \E raws \in SeqsUpTo(AllocTargets, MaxAllocTargets) \ {<<>>} :
          parse_arguments(raws, <<>>, "", TRUE)
    /\ UNCHANGED <<prompt, selected_index, choice, targets, credentials, env,
                   calls, last_event, configVars>>
    /\ UNCHANGED gateVars

NextAlloc ==
    \/ ParseTargetList
    \/ CheckDockerInstalled

SpecAlloc == InitAlloc /\ [][NextAlloc]_vars

\* C31: once targets_info is built, no two of its entries have the same
\* workspace_subdir, whatever slugs the targets share, and targets_info is
\* what the allocation gives for the ordered list args.target (the same
\* list gives the same names again).
C31_DistinctWorkspaceSubdirs ==
    TargetsResolved =>
       /\ \A i, j \in 1..Len(args.targets_info) :
             i # j => args.targets_info[i].workspace_subdir #
                      args.targets_info[j].workspace_subdir
       /\ args.targets_info = assign_workspace_subdirs(AppendTargets(args.target))

-----------------------------------------------------------------------------
(* infer_target_type on -t targets that match more than one rule            *)

ResolverInputs ==
    {"./app", "./mirror.git", "./missing", "git@github.com:acme/app.git",
     "https://github.com/acme/app", "https://staging.acme.com", "acme.io.git",
     "example.com", "bogus"}

\* parse_arguments on an argv whose -t occurrences come from ResolverInputs
ParseResolverInputs ==
    /\ pc = "parse_arguments"
    /\ \E raws \in SeqsUpTo(ResolverInputs, MaxTargets) \ {<<>>},
          non_interactive \in BOOLEAN :
            parse_arguments(raws, <<>>, "", non_interactive)
    /\ UNCHANGED <<prompt, selected_index, choice, targets, credentials, env,
                   calls, last_event, configVars>>
    /\ UNCHANGED gateVars

NextResolve ==
    \/ ParseResolverInputs
    \/ CheckDockerInstalled

SpecResolve == InitAlloc /\ [][NextResolve]_vars

\* C32 as stated: every entry made from an existing directory has the type
\* local_code, and every entry made from a string that ends in .git has the
\* type repository.
C32_DirectoryLocalGitRepository ==
    \A i \in 1..Len(args.targets_info) :
       /\ args.targets_info[i].original \in ExistingDirs =>
             args.targets_info[i].type = "local_code"
       /\ args.targets_info[i].original \in EndsWithGit =>
             args.targets_info[i].type = "repository"

\* C32: every entry made from an existing directory has the type local_code,
\* also when its name ends in .git; every entry made from a string that ends
\* in .git and does not denote a filesystem path has the type repository,
\* also when the string looks like a hostname with a dot; and a string that
\* denotes a path that does not exist gives no entry.
C32_PathFirstThenRepository ==
    \A i \in 1..Len(args.targets_info) :
       LET raw == args.targets_info[i].original
       IN  /\ raw \in ExistingDirs => args.targets_info[i].type = "local_code"
           /\ (raw \in EndsWithGit /\ raw \notin PathSyntax \cup ExistingDirs) =>
                 args.targets_info[i].type = "repository"
           /\ raw \in PathSyntax => raw \in ExistingDirs

\* C32 witness: a directory whose name ends in .git was resolved as local
\* code and a hostname-like string that ends in .git as a repository
C32_Witness ==
    /\ Len(args.targets_info) = 2
    /\ args.targets_info[1].original = "./mirror.git"
    /\ args.targets_info[1].type = "local_code"
    /\ args.targets_info[2].original = "acme.io.git"
    /\ args.targets_info[2].type = "repository"

\* C33: while the menu is shown the cursor is one of the positions
\* 0 .. len(menu_options) - 1; up on position 0 and down on the last position
\* leave it where it is, any other up or down moves it by exactly one; and
\* Enter gives the choice selected_index + 1.
C33_CursorStaysInMenu ==
    /\ [](InMenu => selected_index \in 0..(len_menu_options - 1))
    /\ [][InMenu =>
            /\ last_event' = <<"menu", "up">> =>
                  selected_index' = IF selected_index = 0 THEN 0
                                    ELSE selected_index - 1
            /\ last_event' = <<"menu", "down">> =>
                  selected_index' = IF selected_index = len_menu_options - 1
                                    THEN selected_index
                                    ELSE selected_index + 1
            /\ last_event' = <<"menu", "enter">> =>
                  /\ choice' = selected_index + 1
                  /\ choice' \in 1..len_menu_options]_vars

\* C33 witness: the cursor is on the last of the eight entries after a
\* press of down
C33_Witness ==
    /\ InMenu
    /\ flow_module = "menu.py"
    /\ last_event = <<"menu", "down">>
    /\ selected_index = 7

\* one of the prompts that follow the target prompt of the presets 6 and 7
InFollowUpPrompt ==
    /\ pc = "show_interactive_menu"
    /\ flow = "AwaitingSingleInput"
    /\ prompt \in {"instruction", "credentials", "additional instructions"}

\* C34: escape in a prompt that follows the target prompt of preset 6 or 7
\* does not cancel the flow and has the effect of an empty submission: the
\* collected target is kept, after the credentials prompt the prompt for
\* additional instructions is still shown with no credentials taken, and
\* after an instruction prompt the flow goes on to the resolution of the
\* targets with the instruction an empty answer gives.
C34_EscapeInFollowUpPrompt ==
    [][(InFollowUpPrompt /\ Escaped') =>
         /\ choice \in {6, 7}
         /\ Len(args.target) = 1
         /\ flow' # "Cancelled"
         /\ exit_code' = <<>>
         /\ args'.target = args.target
         /\ CASE prompt = "credentials" ->
                    /\ flow' = "AwaitingSingleInput"
                    /\ prompt' = "additional instructions"
                    /\ credentials' \in {None, ""}
                    /\ args' = args
              [] prompt = "instruction" ->
                    /\ flow' = "Resolving"
                    /\ args'.instruction = args.instruction
                    /\ args.instruction = <<>>
              [] OTHER ->
                    /\ flow' = "Resolving"
                    /\ args'.instruction =
                          IF credentials \in {None, ""}
                          THEN <<>>
                          ELSE <<"Test with credentials: ", credentials, ".">>
      ]_vars

\* C34 witness: the credentials prompt was left with escape and the prompt
\* for additional instructions is open, the target still collected
C34_Witness ==
    /\ Escaped
    /\ pc = "show_interactive_menu"
    /\ flow = "AwaitingSingleInput"
    /\ prompt = "additional instructions"
    /\ choice = 7
    /\ credentials = None
    /\ Len(args.target) = 1

\* C35: when the second prompt of the credentials preset is left, with c the
\* answer to the credentials prompt and t the answer to the prompt for
\* additional instructions (escape counting as the empty answer), the
\* instruction is "Test with credentials: c", then ". t" when t is not
\* empty, then "." when c is not empty; it is t alone when only c is empty;
\* and it stays unset when both are empty.
C35_CredentialsInstruction ==
    [][(/\ pc = "show_interactive_menu"
        /\ flow = "AwaitingSingleInput"
        /\ prompt = "additional instructions"
        /\ flow' # flow) =>
         LET c == IF credentials = None THEN "" ELSE credentials
             t == IF Escaped' THEN "" ELSE strip(last_event'[3])
         IN  /\ choice = 7
             /\ Escaped' \/ Submitted'
             /\ flow' = "Resolving"
             /\ args.instruction = <<>>
             /\ args'.instruction =
                   IF c # ""
                   THEN <<"Test with credentials: ", c>>
                        \o (IF t # "" THEN <<". ", t>> ELSE <<>>)
                        \o <<".">>
                   ELSE IF t # "" THEN <<t>>
                   ELSE <<>>
      ]_vars

\* C35 witness: the credentials preset goes on to the resolution of its
\* target with an instruction built from both answers
C35_Witness ==
    /\ flow = "Resolving"
    /\ choice = 7
    /\ Submitted
    /\ credentials = "admin/password123"
    /\ args.instruction = <<"Test with credentials: ", "admin/password123",
                            ". ", "Prioritize authentication testing", ".">>

\* ctrl+s in the settings screen
SettingsSaveStep == InSettings /\ last_event' = <<"config", "ctrl+s">>

NoTargetSupplied == flow # "Idle"

\* the interactive flow has built its own arguments: a preset was chosen
PresetChosen ==
    flow \in {"AwaitingSingleInput", "AwaitingMultiInput", "Resolving", "Failed", "Done"}

\* C37: in a run started with no -t, the choice of a preset replaces the
\* parsed arguments by new ones with no target, no instruction, no run name
\* and non_interactive false, whatever --instruction, --run-name and
\* --non-interactive were; from then on non_interactive is false, the run
\* name is unset or the generated one and the instruction is none the command
\* line gave; such a run never calls run_cli and never exits with code 2.
C37_InteractiveFlowReplacesArguments ==
    /\ [](NoTargetSupplied =>
            /\ ~Called("run_cli")
            /\ exit_code # <<2>>
            /\ PresetChosen =>
                  /\ ~args.non_interactive
                  /\ args.run_name \in {"", "generated-run"}
                  /\ args.instruction # <<"Focus on IDOR and XSS">>
            /\ \A i \in 1..Len(calls) :
                  calls[i][1] \in {"run_cli", "run_tui"} =>
                     calls[i] = <<"run_tui", "generated-run">>)
    /\ [][(pc = "show_interactive_menu" /\ flow = "MenuDisplay" /\ PresetChosen')
            => args' = EmptyArgs]_vars

\* C37 witness: a run that went through the interactive flow has ended after
\* the engine returned with a report: the engine was run_tui under a
\* generated run name and the exit code is 0
C37_Witness ==
    /\ NoTargetSupplied
    /\ flow = "Done"
    /\ pc = "exited"
    /\ Called("run_tui")
    /\ args.run_name = "generated-run"
    /\ tracer.present
    /\ tracer.vulnerability_reports > 0
    /\ exit_code = <<0>>

=============================================================================
